---- MODULE Spec2Model ----
(***************************************************************************)
(* Model of terraform-provider-kea-cb: the Kea command client (tools/kea)  *)
(* and the Terraform resource handlers built on it (internal/provider).    *)
(*                                                                         *)
(* Strings the code inspects (prefixes, hostnames, server texts, error     *)
(* messages) are sequences of one-character strings, so that Split,        *)
(* Replace, Atoi, HasPrefix and Contains are computed as the code computes *)
(* them.  Strings the code only passes along (pool ranges, option names)   *)
(* are plain strings.                                                      *)
(***************************************************************************)
EXTENDS Integers, Sequences, FiniteSets, TLC

VARIABLES client, tf, last, sent, pure, server, callers

vars == <<client, tf, last, sent, pure, server, callers>>

---------------------------------------------------------------------------
(* Character strings *)

NotFoundMarker == <<"n", "o", "t", " ", "f", "o", "u", "n", "d">>
TxtNotFound == <<"s", "u", "b", "n", "e", "t", " ", "n", "o", "t", " ", "f", "o", "u", "n", "d">>
TxtNoResources == <<"0", " ", "s", "u", "b", "n", "e", "t", "(", "s", ")", " ", "f", "o", "u", "n", "d">>
TxtSuccess == <<"o", "k">>
ErrResultPrefix == <<"r", "e", "s", "u", "l", "t", ":">>
ErrUnmarshalEOF == <<"c", "h", "e", "c", "k", "R", "e", "s", "p", "o", "n", "s", "e", ".", "j", "s", "o", "n", ".", "U", "n", "m", "a", "r", "s", "h", "a", "l", "(", "E", "O", "F", ")">>
ErrEmptyArray == <<"c", "h", "e", "c", "k", "R", "e", "s", "p", "o", "n", "s", "e", "(", "U", "n", "a", "b", "l", "e", " ", "t", "o", " ", "f", "i", "n", "d", " ", "r", "e", "s", "p", "o", "n", "s", "e", " ", "i", "n", " ", "[", "]", ")">>
ErrDecodePrefix == <<"f", "a", "i", "l", "u", "r", "e", " ", "d", "e", "c", "o", "d", "i", "n", "g", " ", "p", "a", "y", "l", "o", "a", "d", ":", " ">>
ErrJSONType == <<"j", "s", "o", "n", ":", " ", "c", "a", "n", "n", "o", "t", " ", "u", "n", "m", "a", "r", "s", "h", "a", "l", " ", "n", "u", "m", "b", "e", "r", " ", "i", "n", "t", "o", " ", "G", "o", " ", "v", "a", "l", "u", "e">>
ErrUnmarshalType == <<"c", "h", "e", "c", "k", "R", "e", "s", "p", "o", "n", "s", "e", ".", "j", "s", "o", "n", ".", "U", "n", "m", "a", "r", "s", "h", "a", "l", "(", "j", "s", "o", "n", ":", " ", "c", "a", "n", "n", "o", "t", " ", "u", "n", "m", "a", "r", "s", "h", "a", "l", " ", "n", "u", "m", "b", "e", "r", " ", "i", "n", "t", "o", " ", "G", "o", " ", "v", "a", "l", "u", "e", " ", "o", "f", " ", "t", "y", "p", "e", " ", "k", "e", "a", ".", "R", "e", "s", "p", "o", "n", "s", "e", ")">>
ErrInvalidIP == <<"i", "n", "v", "a", "l", "i", "d", " ", "I", "P", " ", "a", "d", "d", "r", "e", "s", "s">>
ErrInvalidMAC == <<"i", "n", "v", "a", "l", "i", "d", " ", "M", "A", "C", " ", "a", "d", "d", "r", "e", "s", "s">>
SpaceDhcp4 == <<"d", "h", "c", "p", "4">>
TypeUint32 == <<"u", "i", "n", "t", "3", "2">>
TypeString == <<"s", "t", "r", "i", "n", "g">>
NameMyOption == <<"m", "y", "-", "o", "p", "t", "i", "o", "n">>
NameSwitch == <<"s", "w", "i", "t", "c", "h">>
SchemeHTTPS == <<"h", "t", "t", "p", "s", ":", "/", "/">>
HostKea == <<"k", "e", "a">>
HostBad == <<"k", " ", "a">>
ErrParsePrefix == <<"p", "a", "r", "s", "e", " ", "\"">>
ErrParseSuffix == <<"\"", ":", " ", "i", "n", "v", "a", "l", "i", "d", " ", "c", "h", "a", "r", "a", "c", "t", "e", "r", " ", "\"", " ", "\"", " ", "i", "n", " ", "h", "o", "s", "t", " ", "n", "a", "m", "e">>
ErrPostPrefix == <<"P", "o", "s", "t", " ", "\"">>
ErrPostSuffix == <<"\"", ":", " ", "E", "O", "F">>

Digits == <<"0", "1", "2", "3", "4", "5", "6", "7", "8", "9">>

DigitChars == {Digits[i] : i \in 1..10}

DigitVal(c) == (CHOOSE i \in 1..10 : Digits[i] = c) - 1

(* strings.Contains *)
Contains(s, sub) ==
    \E i \in 0..(Len(s) - Len(sub)) : SubSeq(s, i + 1, i + Len(sub)) = sub

(* strings.HasPrefix / strings.HasSuffix *)
HasPrefix(s, p) == Len(s) >= Len(p) /\ SubSeq(s, 1, Len(p)) = p

HasSuffix(s, p) == Len(s) >= Len(p) /\ SubSeq(s, Len(s) - Len(p) + 1, Len(s)) = p

(* strings.Split(s, sep)[0] for a one-character separator *)
SplitFirst(s, sep) ==
    IF \E i \in 1..Len(s) : s[i] = sep
    THEN LET k == CHOOSE i \in 1..Len(s) :
                    s[i] = sep /\ \A j \in 1..(i - 1) : s[j] # sep
         IN SubSeq(s, 1, k - 1)
    ELSE s

(* fmt %d of a non-negative integer *)
RECURSIVE Itoa(_)
Itoa(n) == IF n < 10 THEN <<Digits[n + 1]>>
           ELSE Itoa(n \div 10) \o <<Digits[(n % 10) + 1]>>

(* value of a non-empty run of decimal digits, leading zeros allowed *)
RECURSIVE DigitsValue(_)
DigitsValue(s) ==
    IF Len(s) = 0 THEN 0
    ELSE DigitsValue(SubSeq(s, 1, Len(s) - 1)) * 10 + DigitVal(s[Len(s)])

---------------------------------------------------------------------------
(* Values *)

(* error values: nil, or an error with its rendered message *)
NilErr == [nil |-> TRUE, msg |-> <<>>]

Err(m) == [nil |-> FALSE, msg |-> m]

(* types.String of the plugin framework: null, unknown or a known value;   *)
(* ValueString() of a null or unknown value is ""                          *)
StrNull == [st |-> "null", v |-> <<>>]

StrUnknown == [st |-> "unknown", v |-> <<>>]

Str(s) == [st |-> "known", v |-> s]

(* binds the value v to the parameter of In, as an assignment to a local    *)
(* variable does                                                           *)
With(v, In(_)) == In(v)

(* x.IsNull() || x.IsUnknown() || x.ValueString() == "" *)
IsMissing(x) == x.st = "null" \/ x.st = "unknown" \/ x.v = <<>>

(* types.Bool.ValueBool(): false for null and unknown *)
ValueBool(b) == b = "true"

---------------------------------------------------------------------------
(* Subnet identifier derivation *)

(* strconv.Atoi on strings shorter than 19 characters (the fast path) and  *)
(* on the empty string; every string of the model is shorter than that     *)
Atoi(s) ==
    IF Len(s) = 0 THEN [ok |-> FALSE, val |-> 0]
    ELSE LET signed == s[1] = "-" \/ s[1] = "+"
             body   == IF signed THEN SubSeq(s, 2, Len(s)) ELSE s
         IN IF Len(body) < 1 \/ \E i \in 1..Len(body) : body[i] \notin DigitChars
            THEN [ok |-> FALSE, val |-> 0]
            ELSE [ok |-> TRUE,
                  val |-> IF s[1] = "-" THEN 0 - DigitsValue(body)
                          ELSE DigitsValue(body)]

(* a plausible slip: the replacer leaves the dots of the address in place  *)
cidrToIDRepl_NoDot(s) == SelectSeq(s, LAMBDA ch : ch \notin {"/", " "})

(* cidrToIDRepl = strings.NewReplacer(".", "", "/", "", " ", "") *)
cidrToIDRepl(s) == SelectSeq(s, LAMBDA ch : ch \notin {".", "/", " "})

(* strconv.Atoi(cidrToIDRepl.Replace(strings.Split(subnet, "/")[0])) *)
DeriveID(subnet) == Atoi(cidrToIDRepl(SplitFirst(subnet, "/")))

(* the text of an IPv4 CIDR with the given octets and prefix length *)
CIDR(o, n) ==
    Itoa(o[1]) \o <<".">> \o Itoa(o[2]) \o <<".">> \o Itoa(o[3]) \o <<".">>
      \o Itoa(o[4]) \o <<"/">> \o Itoa(n)

---------------------------------------------------------------------------
(* Address validation: net.ParseIP and net.ParseMAC as ReservationAdd and  *)
(* ReservationDel use them                                                 *)

HexDigits == <<"0", "1", "2", "3", "4", "5", "6", "7", "8", "9",
               "a", "b", "c", "d", "e", "f">>

UpperHex == <<"0", "1", "2", "3", "4", "5", "6", "7", "8", "9",
              "A", "B", "C", "D", "E", "F">>

IsHex(ch) == \E i \in 1..16 : HexDigits[i] = ch \/ UpperHex[i] = ch

HexVal(ch) == (CHOOSE i \in 1..16 : HexDigits[i] = ch \/ UpperHex[i] = ch) - 1

(* strings.Split(s, sep) for a one-character separator *)
RECURSIVE SplitAll(_, _)
SplitAll(s, sep) ==
    IF \E i \in 1..Len(s) : s[i] = sep
    THEN <<SplitFirst(s, sep)>>
           \o SplitAll(SubSeq(s, Len(SplitFirst(s, sep)) + 2, Len(s)), sep)
    ELSE <<s>>

(* one dotted-decimal field: digits only, no leading zero, at most 255 *)
IPv4Field(f) ==
    /\ Len(f) \in 1..3
    /\ \A i \in 1..Len(f) : f[i] \in DigitChars
    /\ (Len(f) > 1 => f[1] # "0")
    /\ DigitsValue(f) <= 255

ParseIPv4(s) ==
    LET f == SplitAll(s, ".")
    IN Len(f) = 4 /\ \A i \in 1..4 : IPv4Field(f[i])

(* the colon-separated groups of one side of an IPv6 literal *)
IPv6Groups(part) == IF part = <<>> THEN <<>> ELSE SplitAll(part, ":")

IPv6Group(g) == Len(g) \in 1..4 /\ \A i \in 1..Len(g) : IsHex(g[i])

(* IPv6 literals without a zone and without an embedded IPv4 tail: eight   *)
(* groups, or fewer around one "::"                                        *)
ParseIPv6(s) ==
    IF Contains(s, <<":", ":">>)
    THEN LET k == CHOOSE i \in 1..(Len(s) - 1) :
                     /\ SubSeq(s, i, i + 1) = <<":", ":">>
                     /\ \A j \in 1..(i - 1) : SubSeq(s, j, j + 1) # <<":", ":">>
             l == IPv6Groups(SubSeq(s, 1, k - 1))
             r == IPv6Groups(SubSeq(s, k + 2, Len(s)))
         IN /\ \A i \in 1..Len(l) : IPv6Group(l[i])
            /\ \A i \in 1..Len(r) : IPv6Group(r[i])
            /\ Len(l) + Len(r) <= 7
    ELSE LET g == SplitAll(s, ":")
         IN Len(g) = 8 /\ \A i \in 1..8 : IPv6Group(g[i])

(* net.ParseIP(s) != nil: the first of '.', ':' and '%' in s decides the   *)
(* family; a zone is not accepted                                          *)
ParseIP(s) ==
    /\ \E i \in 1..Len(s) : s[i] \in {".", ":", "%"}
    /\ LET k == CHOOSE i \in 1..Len(s) :
                   /\ s[i] \in {".", ":", "%"}
                   /\ \A j \in 1..(i - 1) : s[j] \notin {".", ":", "%"}
       IN CASE s[k] = "." -> ParseIPv4(s)
            [] s[k] = ":" -> ~ Contains(s, <<"%">>) /\ ParseIPv6(s)
            [] OTHER -> FALSE

(* xtoi2: two hex digits, then the separator e or the end of the string *)
Xtoi2(s, e) ==
    /\ Len(s) >= 2
    /\ (Len(s) > 2 => s[3] = e)
    /\ IsHex(s[1]) /\ IsHex(s[2])

(* HardwareAddr.String(): two lowercase hex digits a byte, colons between *)
RECURSIVE HwString(_)
HwString(bytes) ==
    IF Len(bytes) = 0 THEN <<>>
    ELSE (IF Len(bytes) > 1 THEN HwString(SubSeq(bytes, 1, Len(bytes) - 1)) \o <<":">>
          ELSE <<>>)
           \o <<HexDigits[(bytes[Len(bytes)] \div 16) + 1],
                HexDigits[(bytes[Len(bytes)] % 16) + 1]>>

(* net.ParseMAC for the colon and the hyphen form (6, 8 or 20 groups of    *)
(* two hex digits) and the dot form (3, 4 or 10 groups of four)            *)
ParseMAC(s) ==
    IF Len(s) < 14 THEN [ok |-> FALSE, hw |-> <<>>]
    ELSE IF s[3] = ":" \/ s[3] = "-"
    THEN LET n == (Len(s) + 1) \div 3
         IN IF (Len(s) + 1) % 3 # 0 \/ n \notin {6, 8, 20}
               \/ \E i \in 0..(n - 1) : ~ Xtoi2(SubSeq(s, 3 * i + 1, Len(s)), s[3])
            THEN [ok |-> FALSE, hw |-> <<>>]
            ELSE [ok |-> TRUE,
                  hw |-> [i \in 1..n |-> 16 * HexVal(s[3 * i - 2]) + HexVal(s[3 * i - 1])]]
    ELSE IF s[5] = "."
    THEN LET n == (2 * (Len(s) + 1)) \div 5
         IN IF (Len(s) + 1) % 5 # 0 \/ n \notin {6, 8, 20}
               \/ \E i \in 0..((n \div 2) - 1) :
                     \/ ~ Xtoi2(SubSeq(s, 5 * i + 1, 5 * i + 2), ".")
                     \/ ~ Xtoi2(SubSeq(s, 5 * i + 3, Len(s)), ".")
            THEN [ok |-> FALSE, hw |-> <<>>]
            ELSE [ok |-> TRUE,
                  hw |-> [i \in 1..n |->
                            LET x == 5 * ((i - 1) \div 2) + 2 * ((i - 1) % 2)
                            IN 16 * HexVal(s[x + 1]) + HexVal(s[x + 2])]]
    ELSE [ok |-> FALSE, hw |-> <<>>]

---------------------------------------------------------------------------
(* Transport client: tools/kea/kea.go *)

(* http.NewRequestWithContext fails when the URL does not parse; a space   *)
(* in the host part is such a case                                         *)
URLParses(u) ==
    ~ Contains(SplitFirst(SubSeq(u, Len(SchemeHTTPS) + 1, Len(u)), "/"), <<" ">>)

(* the URL coercion of make *)
NormalizeURL(url) ==
    LET u1 == IF ~ HasPrefix(url, SchemeHTTPS) THEN SchemeHTTPS \o url ELSE url
    IN IF ~ HasSuffix(u1, <<"/">>) THEN u1 \o <<"/">> ELSE u1

NoRequest == [method |-> "", url |-> <<>>, body |-> [command |-> ""],
              username |-> "", password |-> ""]

(* a plausible slip: the credentials are not set on the request *)
make_NoBasicAuth(c, method, url, body) ==
    With(NormalizeURL(url), LAMBDA u :
        IF ~ URLParses(u)
        THEN [err |-> Err(ErrParsePrefix \o u \o ErrParseSuffix), req |-> NoRequest]
        ELSE [err |-> NilErr,
              req |-> [method |-> method, url |-> u, body |-> body,
                       username |-> "", password |-> ""]])

(* Client.make: encode the body, coerce the URL, build the request and set *)
(* the headers and the Basic-auth credentials                              *)
make(c, method, url, body) ==
    With(NormalizeURL(url), LAMBDA u :
        IF ~ URLParses(u)
        THEN [err |-> Err(ErrParsePrefix \o u \o ErrParseSuffix), req |-> NoRequest]
        ELSE [err |-> NilErr,
              req |-> [method |-> method, url |-> u, body |-> body,
                       username |-> c.username, password |-> c.password]])

(* the decoded form of an arguments object: the fields the client reads *)
ZeroArgs == [subnets |-> <<>>, count |-> 0, optdefs |-> <<>>]

NoResponse == [wf |-> TRUE, result |-> 0, text |-> <<>>,
               arguments |-> [kind |-> "absent", obj |-> ZeroArgs]]

(* checkResponse: a body that does not decode as an array of responses (no *)
(* array at all, here an empty body, EOF; or an array with an element that *)
(* is no response object, wf false), an empty array, result 0, or any      *)
(* other result                                                            *)
checkResponse(body) ==
    IF body.kind = "malformed"
    THEN [err |-> Err(ErrUnmarshalEOF), ok |-> FALSE, res |-> NoResponse]
    ELSE IF Len(body.elems) = 0
    THEN [err |-> Err(ErrEmptyArray), ok |-> FALSE, res |-> NoResponse]
    ELSE IF \E i \in 1..Len(body.elems) : ~ body.elems[i].wf
    THEN [err |-> Err(ErrUnmarshalType), ok |-> FALSE, res |-> NoResponse]
    ELSE IF body.elems[1].result = 0
    THEN [err |-> NilErr, ok |-> TRUE, res |-> body.elems[1]]
    ELSE [err |-> Err(ErrResultPrefix \o Itoa(body.elems[1].result) \o <<"(">>
                        \o body.elems[1].text \o <<")">>),
          ok |-> FALSE, res |-> NoResponse]

(* RemoteSubnet4List keeps id and subnet of a subnet object *)
ListView(sn) == [id |-> sn.id, subnet |-> sn.subnet, pools |-> <<>>,
                 relay |-> <<>>, optiondata |-> <<>>]

(* json.NewDecoder(bytes.NewReader(res.Arguments)).Decode(v) for the       *)
(* decode targets of the client; an absent arguments body reads as io.EOF  *)
(* (eof), a JSON null leaves the target alone, a scalar fits only an       *)
(* interface{} target, an object fills the fields the target declares      *)
Decode(v, args) ==
    CASE args.kind = "absent" ->
            [eof |-> TRUE, err |-> Err(<<"E", "O", "F">>), val |-> ZeroArgs]
      [] args.kind = "null"   -> [eof |-> FALSE, err |-> NilErr, val |-> ZeroArgs]
      [] args.kind = "scalar" ->
            IF v = "any" THEN [eof |-> FALSE, err |-> NilErr, val |-> ZeroArgs]
            ELSE [eof |-> FALSE, err |-> Err(ErrJSONType), val |-> ZeroArgs]
      [] OTHER ->
            [eof |-> FALSE, err |-> NilErr,
             val |-> CASE v = "subnets" -> [ZeroArgs EXCEPT !.subnets = args.obj.subnets]
                       [] v = "subnetlist" ->
                            [ZeroArgs EXCEPT !.subnets =
                                [i \in 1..Len(args.obj.subnets) |->
                                    ListView(args.obj.subnets[i])]]
                       [] v = "count" -> [ZeroArgs EXCEPT !.count = args.obj.count]
                       [] v = "optdefs" ->
                            [ZeroArgs EXCEPT !.count = args.obj.count,
                                             !.optdefs = args.obj.optdefs]
                       [] OTHER -> ZeroArgs]

(* a plausible slip: io.EOF of an empty arguments body is not tolerated *)
do_NoEOF(req, outcome, v) ==
    IF outcome.kind = "neterr"
    THEN [err |-> Err(ErrPostPrefix \o req.url \o ErrPostSuffix), hasres |-> FALSE,
          res |-> NoResponse, val |-> ZeroArgs, body |-> "none"]
    ELSE With(checkResponse(outcome.body), LAMBDA chk :
         IF ~ chk.err.nil
         THEN [err |-> chk.err, hasres |-> FALSE, res |-> NoResponse, val |-> ZeroArgs,
               body |-> "closed"]
         ELSE IF v = "nil"
         THEN [err |-> NilErr, hasres |-> TRUE, res |-> chk.res, val |-> ZeroArgs,
               body |-> "open"]
         ELSE With(Decode(v, chk.res.arguments), LAMBDA d :
              IF ~ d.err.nil
              THEN [err |-> Err(ErrDecodePrefix \o d.err.msg),
                    hasres |-> TRUE, res |-> chk.res, val |-> d.val,
                    body |-> "open"]
              ELSE [err |-> NilErr, hasres |-> TRUE, res |-> chk.res, val |-> d.val,
                    body |-> "open"]))

(* Client.do: send the request, check the envelope, decode the arguments   *)
(* into v unless v is nil.  outcome is what the transport delivers: a      *)
(* transport error or a response body.  body tells what became of the     *)
(* response body: "none" when no response was obtained, "closed" when do   *)
(* closed it before returning, "open" when do returned without closing it  *)
do(req, outcome, v) ==
    IF outcome.kind = "neterr"
    THEN [err |-> Err(ErrPostPrefix \o req.url \o ErrPostSuffix), hasres |-> FALSE,
          res |-> NoResponse, val |-> ZeroArgs, body |-> "none"]
    ELSE With(checkResponse(outcome.body), LAMBDA chk :
         IF ~ chk.err.nil
         THEN [err |-> chk.err, hasres |-> FALSE, res |-> NoResponse, val |-> ZeroArgs,
               body |-> "closed"]
         ELSE IF v = "nil"
         THEN [err |-> NilErr, hasres |-> TRUE, res |-> chk.res, val |-> ZeroArgs,
               body |-> "open"]
         ELSE With(Decode(v, chk.res.arguments), LAMBDA d :
              IF ~ d.err.nil /\ ~ d.eof
              THEN [err |-> Err(ErrDecodePrefix \o d.err.msg),
                    hasres |-> TRUE, res |-> chk.res, val |-> d.val,
                    body |-> "open"]
              ELSE [err |-> NilErr, hasres |-> TRUE, res |-> chk.res, val |-> d.val,
                    body |-> "open"]))

---------------------------------------------------------------------------
(* Inputs: configurations and what the server answers *)

(* the longest subnets list a reply carries *)
MaxReply == 2

Texts == {TxtNotFound, TxtNoResources}

(* networks whose prefixes the configurations name *)
Nets == {<<192, 168, 225, 0>>, <<1, 11, 1, 0>>, <<11, 1, 1, 0>>}

Hostnames == {StrNull, StrUnknown, Str(<<>>), Str(HostKea), Str(HostBad)}

SubnetStrings ==
    {Str(CIDR(o, 24)) : o \in Nets}
      \cup {StrNull, StrUnknown, Str(<<>>), Str(<<"a", "b", "c", "/", "2", "4">>),
            Str(<<"/", "2", "4">>)}

Opt(code, name, data, always) ==
    [code |-> code, name |-> name, data |-> data, always_send |-> always]

(* pools, relay and option_data as the acceptance test configures them *)
TestPayload ==
    [pools |-> <<"192.168.225.50-192.168.225.150">>,
     relay |-> <<"192.168.225.1">>,
     option_data |-> << Opt(3, "routers", "192.168.225.1", "null"),
                        Opt(15, "domain-name", "example.com", "null"),
                        Opt(6, "domain-name-servers", "4.2.2.2, 8.8.8.8", "null") >>]

(* the test's values, nothing optional set, and two entries each in        *)
(* another order with always_send set                                      *)
Payloads ==
    { TestPayload,
      [pools |-> <<>>, relay |-> <<>>, option_data |-> <<>>],
      [pools |-> <<"10.0.0.200-10.0.0.250", "10.0.0.10-10.0.0.20">>,
       relay |-> <<"10.0.0.2", "10.0.0.1">>,
       option_data |-> << Opt(6, "domain-name-servers", "8.8.8.8", "true"),
                          Opt(3, "routers", "10.0.0.1", "false") >>] }

IntNull == [st |-> "null", n |-> 0]

IntV(n) == [st |-> "known", n |-> n]

(* remoteSubnet4ResourceSchema as the configuration or the plan gives it:  *)
(* the computed id is not set.  Every hostname and subnet string is tried  *)
(* with the test's payload, the usable ones with every payload             *)
SubnetConfigs ==
    { [hostname |-> h, id |-> IntNull, subnet |-> sn, pools |-> p.pools,
       relay |-> p.relay, option_data |-> p.option_data] :
        h \in Hostnames, sn \in SubnetStrings, p \in {TestPayload} }
      \cup
    { [hostname |-> Str(HostKea), id |-> IntNull, subnet |-> Str(CIDR(o, 24)),
       pools |-> p.pools, relay |-> p.relay, option_data |-> p.option_data] :
        o \in Nets, p \in Payloads }

(* remoteSubnet4DataSourceSchema as the configuration gives it *)
DataSourceConfigs ==
    { [prefix |-> p, subnet_id |-> n, hostname |-> h] :
        p \in {StrNull, Str(<<>>), Str(CIDR(<<192, 168, 225, 0>>, 24))},
        n \in {IntNull, IntV(1921682250)},
        h \in {StrNull, Str(HostKea), Str(HostBad)} }

(* remoteOptionDef4ResourceSchema as the configuration or the plan gives it *)
OptDefConfigs ==
    { [hostname |-> h, name |-> n, code |-> k, type |-> t, array |-> a,
       record_types |-> StrNull, space |-> sp, encapsulate |-> StrNull] :
        h \in {StrNull, Str(HostKea), Str(HostBad)},
        n \in {StrNull, Str(NameMyOption)},
        k \in {IntNull, IntV(222)},
        t \in {Str(<<>>), Str(TypeString)},
        a \in {"null", "false"},
        sp \in {StrUnknown, Str(SpaceDhcp4)} }

IPStrings ==
    { StrNull,
      Str(<<"1", "9", "2", ".", "1", "6", "8", ".", "1", ".", "5">>),
      Str(<<"9", "9", "9", ".", "1", ".", "1", ".", "1">>),
      Str(<<":", ":", "1">>) }

HwStrings ==
    { StrNull,
      Str(<<"B", "8", ":", "2", "7", ":", "E", "B", ":", "9", "C", ":", "A", "E", ":", "B", "7">>),
      Str(<<"b", "8", "-", "2", "7", "-", "e", "b", "-", "9", "c", "-", "a", "e", "-", "b", "7">>),
      Str(<<"n", "o", "t", "-", "a", "-", "m", "a", "c", "-", "a", "d", "d", "r", "e", "s", "s">>) }

(* reservationResourceSchema as the configuration or the plan gives it *)
ResvConfigs ==
    { [subnet_id |-> n, hostname |-> h, reservation_hostname |-> r,
       ip_address |-> ip, hw_address |-> hw] :
        n \in {IntNull, IntV(1921682250)},
        h \in {Str(<<>>), Str(HostKea)},
        r \in {StrNull, Str(NameSwitch)},
        ip \in IPStrings, hw \in HwStrings }

(* the subnets a program hands to the client itself, as the example main   *)
(* does: the id is the caller's                                            *)
CallerSubnets ==
    { [id |-> n, subnet |-> CIDR(o, 24),
       pools |-> <<"192.168.227.110-192.168.227.120">>,
       optiondata |-> << [hascode |-> FALSE, code |-> 0, name |-> "routers",
                          data |-> "192.168.227.1", always_send |-> FALSE],
                         [hascode |-> FALSE, code |-> 0, name |-> "domain-name-servers",
                          data |-> "4.2.2.2, 8.8.8.8", always_send |-> TRUE],
                         [hascode |-> FALSE, code |-> 0, name |-> "domain-name",
                          data |-> "example.com", always_send |-> FALSE] >>,
       relay |-> <<"192.168.227.1">>] :
        n \in {1921682270, 7, 0},
        o \in {<<192, 168, 227, 0>>, <<192, 168, 225, 0>>} }

ArgAbsent == [kind |-> "absent", items |-> <<>>]

ArgObject(items) == [kind |-> "object", items |-> items]

ItemSeqs == UNION {[1..n -> {"echo", "other"}] : n \in 0..MaxReply}

ArgChoices ==
    {ArgAbsent, [kind |-> "null", items |-> <<>>], [kind |-> "scalar", items |-> <<>>]}
      \cup {ArgObject(it) : it \in ItemSeqs}

NoChoice == [kind |-> "none", result |-> 0, text |-> <<>>, args |-> ArgAbsent]

(* what the transport and the server may answer to one request: a          *)
(* transport error, an empty body, an empty array, or one response object  *)
ServerChoices ==
    { [kind |-> k, result |-> 0, text |-> <<>>, args |-> ArgAbsent] :
        k \in {"neterr", "malformed", "emptyarray", "badarray"} }
      \cup { [kind |-> "reply", result |-> 0, text |-> TxtSuccess, args |-> a] :
                a \in ArgChoices }
      \cup { [kind |-> "reply", result |-> 3, text |-> t, args |-> a] :
                t \in Texts, a \in {ArgAbsent, ArgObject(<<"echo">>)} }
      \cup { [kind |-> "reply", result |-> r, text |-> t, args |-> ArgAbsent] :
                r \in {1, 2, 4}, t \in Texts }

(* a subnet as the server holds it *)
StoredSubnet(id, subnet) ==
    [id |-> id, subnet |-> subnet,
     pools |-> <<"192.168.225.50-192.168.225.150">>,
     relay |-> <<"192.168.225.1">>,
     optiondata |-> << [hascode |-> TRUE, code |-> 3, name |-> "routers",
                        data |-> "192.168.225.1", always_send |-> FALSE] >>]

OtherSubnet ==
    [id |-> 7, subnet |-> CIDR(<<10, 0, 0, 0>>, 8), pools |-> <<>>, relay |-> <<>>,
     optiondata |-> << [hascode |-> FALSE, code |-> 0, name |-> "routers",
                        data |-> "10.0.0.1", always_send |-> TRUE] >>]

StoredOptDef(space, code) ==
    [name |-> NameMyOption, code |-> code, type |-> TypeUint32, array |-> TRUE,
     record_types |-> <<>>, space |-> space, encapsulate |-> <<>>]

(* one entry of a reply's list, for the command it answers: "echo" is the  *)
(* entity the request names, "other" one the server chose differently      *)
ReplyItem(item, body) ==
    LET a == body.arguments
    IN CASE body.command = "remote-subnet4-set" ->
                IF Len(a.subnets) = 0 THEN ListView(OtherSubnet)
                ELSE IF item = "echo" THEN ListView(a.subnets[1])
                ELSE ListView([a.subnets[1] EXCEPT !.id = 7])
         [] body.command = "remote-subnet4-get-by-prefix" ->
                IF item = "echo" THEN StoredSubnet(1921682250, a.subnets[1].subnet)
                ELSE OtherSubnet
         [] body.command = "remote-subnet4-get-by-id" ->
                IF item = "echo"
                THEN StoredSubnet(a.subnets[1].id, CIDR(<<192, 168, 225, 0>>, 24))
                ELSE OtherSubnet
         [] OTHER -> OtherSubnet

ReplyObject(items, body) ==
    CASE body.command \in {"remote-subnet4-set", "remote-subnet4-get-by-prefix",
                           "remote-subnet4-get-by-id"} ->
            [ZeroArgs EXCEPT !.subnets =
                [i \in 1..Len(items) |-> ReplyItem(items[i], body)]]
      [] body.command \in {"remote-subnet4-del-by-prefix", "remote-subnet4-del-by-id"} ->
            [ZeroArgs EXCEPT !.count = Len(items)]
      [] body.command = "remote-option-def4-get" ->
            [ZeroArgs EXCEPT !.count = Len(items),
                             !.optdefs =
                [i \in 1..Len(items) |->
                    StoredOptDef(body.arguments.optiondefs[1].space,
                                 IF items[i] = "echo"
                                 THEN body.arguments.optiondefs[1].code ELSE 7)]]
      [] OTHER -> ZeroArgs

(* the outcome of sending req when the transport and server choose srv; a  *)
(* reply of kind "held" carries subnets the backend stores                 *)
Reply(srv, req) ==
    CASE srv.kind = "neterr" ->
            [kind |-> "neterr", body |-> [kind |-> "malformed", elems |-> <<>>]]
      [] srv.kind = "malformed" ->
            [kind |-> "response", body |-> [kind |-> "malformed", elems |-> <<>>]]
      [] srv.kind = "emptyarray" ->
            [kind |-> "response", body |-> [kind |-> "array", elems |-> <<>>]]
      [] srv.kind = "badarray" ->
            [kind |-> "response",
             body |-> [kind |-> "array",
                       elems |-> << [NoResponse EXCEPT !.text = TxtSuccess],
                                    [NoResponse EXCEPT !.wf = FALSE] >>]]
      [] OTHER ->
            [kind |-> "response",
             body |-> [kind |-> "array",
                       elems |-> << [wf |-> TRUE, result |-> srv.result,
                                     text |-> srv.text,
                                     arguments |->
                                        IF srv.args.kind = "object"
                                        THEN [kind |-> "object",
                                              obj |-> ReplyObject(srv.args.items, req.body)]
                                        ELSE IF srv.args.kind = "held"
                                        THEN [kind |-> "object",
                                              obj |-> [ZeroArgs EXCEPT
                                                         !.subnets = srv.args.items,
                                                         !.count = Len(srv.args.items)]]
                                        ELSE [kind |-> srv.args.kind,
                                              obj |-> ZeroArgs]] >>]]

---------------------------------------------------------------------------
(* Entity command modules: tools/kea/remote_subnet4.go *)

Request(command, arguments) ==
    [command |-> command, service |-> <<"dhcp4">>, arguments |-> arguments]

ZeroSubnet == [id |-> 0, subnet |-> <<>>, pools |-> <<>>, relay |-> <<>>,
               optiondata |-> <<>>]

(* what a client method hands back: the requests it put on the wire, its   *)
(* error, its value, and whether it ended in a run-time panic              *)
Ret(reqs, err, val) == [sent |-> reqs, err |-> err, val |-> val, fault |-> FALSE]

Panic(reqs, val) == [sent |-> reqs, err |-> NilErr, val |-> val, fault |-> TRUE]

(* Client.RemoteSubnet4Set: the subnets are sent as the caller gives them *)
RemoteSubnet4Set(c, hostname, subnets, srv) ==
    With(make(c, "POST", hostname,
              Request("remote-subnet4-set",
                      [remote |-> [type |-> c.remote], servertags |-> <<"all">>,
                       subnets |-> subnets])), LAMBDA m :
        IF ~ m.err.nil THEN Ret(<<>>, m.err, <<>>)
        ELSE With(do(m.req, Reply(srv, m.req), "subnetlist"), LAMBDA d :
             IF ~ d.err.nil THEN Ret(<<m.req>>, d.err, <<>>)
             ELSE Ret(<<m.req>>, NilErr, d.val.subnets)))

(* a plausible slip: the request is sent once more after an error *)
RemoteSubnet4GetByPrefix_Retry(c, hostname, prefix, srv) ==
    With(make(c, "POST", hostname,
              Request("remote-subnet4-get-by-prefix",
                      [remote |-> [type |-> c.remote],
                       subnets |-> << [subnet |-> prefix] >>])), LAMBDA m :
        IF ~ m.err.nil THEN Ret(<<>>, m.err, ZeroSubnet)
        ELSE With(do(m.req, Reply(srv, m.req), "subnets"), LAMBDA d :
             IF ~ d.err.nil THEN Ret(<<m.req, m.req>>, d.err, ZeroSubnet)
             ELSE IF Len(d.val.subnets) = 0 THEN Panic(<<m.req>>, ZeroSubnet)
             ELSE Ret(<<m.req>>, NilErr, d.val.subnets[1])))

(* Client.RemoteSubnet4GetByPrefix: ret.Subnets[0] of an empty list is an  *)
(* index out of range, a run-time panic                                    *)
RemoteSubnet4GetByPrefix(c, hostname, prefix, srv) ==
    With(make(c, "POST", hostname,
              Request("remote-subnet4-get-by-prefix",
                      [remote |-> [type |-> c.remote],
                       subnets |-> << [subnet |-> prefix] >>])), LAMBDA m :
        IF ~ m.err.nil THEN Ret(<<>>, m.err, ZeroSubnet)
        ELSE With(do(m.req, Reply(srv, m.req), "subnets"), LAMBDA d :
             IF ~ d.err.nil THEN Ret(<<m.req>>, d.err, ZeroSubnet)
             ELSE IF Len(d.val.subnets) = 0 THEN Panic(<<m.req>>, ZeroSubnet)
             ELSE Ret(<<m.req>>, NilErr, d.val.subnets[1])))

(* Client.RemoteSubnet4GetByID *)
RemoteSubnet4GetByID(c, hostname, id, srv) ==
    With(make(c, "POST", hostname,
              Request("remote-subnet4-get-by-id",
                      [remote |-> [type |-> c.remote],
                       subnets |-> << [id |-> id] >>])), LAMBDA m :
        IF ~ m.err.nil THEN Ret(<<>>, m.err, ZeroSubnet)
        ELSE With(do(m.req, Reply(srv, m.req), "subnets"), LAMBDA d :
             IF ~ d.err.nil THEN Ret(<<m.req>>, d.err, ZeroSubnet)
             ELSE IF Len(d.val.subnets) = 0 THEN Panic(<<m.req>>, ZeroSubnet)
             ELSE Ret(<<m.req>>, NilErr, d.val.subnets[1])))

(* Client.RemoteSubnet4DelByPrefix: the count the server reports *)
RemoteSubnet4DelByPrefix(c, hostname, prefix, srv) ==
    With(make(c, "POST", hostname,
              Request("remote-subnet4-del-by-prefix",
                      [remote |-> [type |-> c.remote],
                       subnets |-> << [subnet |-> prefix] >>])), LAMBDA m :
        IF ~ m.err.nil THEN Ret(<<>>, m.err, 0)
        ELSE With(do(m.req, Reply(srv, m.req), "count"), LAMBDA d :
             IF ~ d.err.nil THEN Ret(<<m.req>>, d.err, 0)
             ELSE Ret(<<m.req>>, NilErr, d.val.count)))

---------------------------------------------------------------------------
(* Reconciliation: internal/provider/remote_subnet4_resource.go *)

NoOut == [none |-> TRUE]

(* a handler that stops with diagnostics before any client call *)
Rejected(diags) ==
    [sent |-> <<>>, choice |-> NoChoice, err |-> NilErr, diags |-> diags,
     wrote |-> FALSE, out |-> NoOut, ent |-> NoOut, fault |-> FALSE]

(* a handler that stops after a client call, with or without diagnostics *)
Called(call, srv, diags) ==
    [sent |-> call.sent, choice |-> IF call.sent = <<>> THEN NoChoice ELSE srv,
     err |-> call.err, diags |-> diags, wrote |-> FALSE, out |-> NoOut,
     ent |-> call.val, fault |-> call.fault]

(* a handler that a run-time panic ends after a client call *)
Crashed(call, srv) ==
    [sent |-> call.sent, choice |-> IF call.sent = <<>> THEN NoChoice ELSE srv,
     err |-> call.err, diags |-> <<>>, wrote |-> FALSE, out |-> NoOut,
     ent |-> call.val, fault |-> TRUE]

(* a handler that saves out into the Terraform state *)
Saved(call, srv, out) ==
    [sent |-> call.sent, choice |-> IF call.sent = <<>> THEN NoChoice ELSE srv,
     err |-> call.err, diags |-> <<>>, wrote |-> TRUE, out |-> out,
     ent |-> call.val, fault |-> FALSE]

(* the required-field checks every subnet handler starts with *)
SubnetRequired(config) ==
    (IF IsMissing(config.subnet) THEN <<"Subnet4 prefix is required">> ELSE <<>>)
      \o (IF IsMissing(config.hostname) THEN <<"Hostname is required">> ELSE <<>>)

(* a plausible slip: the always-send flag of an option is not carried over *)
NewRemoteSubnet4_NoAlwaysSend(config, id) ==
    [id |-> id, subnet |-> config.subnet.v, pools |-> config.pools,
     optiondata |->
        [i \in 1..Len(config.option_data) |->
            [hascode |-> TRUE, code |-> config.option_data[i].code,
             name |-> config.option_data[i].name,
             data |-> config.option_data[i].data,
             always_send |-> FALSE]],
     relay |-> config.relay]

(* the kea.NewRemoteSubnet4 that Create and Update build from the config *)
NewRemoteSubnet4(config, id) ==
    [id |-> id, subnet |-> config.subnet.v, pools |-> config.pools,
     optiondata |->
        [i \in 1..Len(config.option_data) |->
            [hascode |-> TRUE, code |-> config.option_data[i].code,
             name |-> config.option_data[i].name,
             data |-> config.option_data[i].data,
             always_send |-> ValueBool(config.option_data[i].always_send)]],
     relay |-> config.relay]

(* a plausible slip: the error of the conversion is dropped and the zero   *)
(* it leaves behind is used as the id                                      *)
Subnet_Create_IgnoreAtoiErr(c, config, srv) ==
    IF SubnetRequired(config) # <<>> THEN Rejected(SubnetRequired(config))
    ELSE With(DeriveID(config.subnet.v), LAMBDA id :
         With(RemoteSubnet4Set(c, config.hostname.v,
                               <<NewRemoteSubnet4(config, id.val)>>, srv),
              LAMBDA call :
              IF ~ call.err.nil THEN Called(call, srv, <<"RemoteSubnet4Create">>)
              ELSE IF Len(call.val) # 1 THEN Called(call, srv, <<"RemoteSubnet4Update">>)
              ELSE Saved(call, srv, [config EXCEPT !.id = IntV(call.val[1].id),
                                                   !.subnet = Str(call.val[1].subnet)])))

(* remoteSubnet4Resource.Create *)
Subnet_Create(c, config, srv) ==
    IF SubnetRequired(config) # <<>> THEN Rejected(SubnetRequired(config))
    ELSE With(DeriveID(config.subnet.v), LAMBDA id :
         IF ~ id.ok THEN Rejected(<<"RemoteSubnet4Create">>)
         ELSE With(RemoteSubnet4Set(c, config.hostname.v,
                                    <<NewRemoteSubnet4(config, id.val)>>, srv),
                   LAMBDA call :
              IF ~ call.err.nil THEN Called(call, srv, <<"RemoteSubnet4Create">>)
              ELSE IF Len(call.val) # 1 THEN Called(call, srv, <<"RemoteSubnet4Update">>)
              ELSE Saved(call, srv, [config EXCEPT !.id = IntV(call.val[1].id),
                                                   !.subnet = Str(call.val[1].subnet)])))

(* a plausible slip: the locally derived id is recorded, not the server's *)
Subnet_Update_KeepLocalID(c, config, srv) ==
    IF SubnetRequired(config) # <<>> THEN Rejected(SubnetRequired(config))
    ELSE With(DeriveID(config.subnet.v), LAMBDA id :
         IF ~ id.ok THEN Rejected(<<"RemoteSubnet4Create">>)
         ELSE With(RemoteSubnet4Set(c, config.hostname.v,
                                    <<NewRemoteSubnet4(config, id.val)>>, srv),
                   LAMBDA call :
              IF ~ call.err.nil THEN Called(call, srv, <<"RemoteSubnet4Update">>)
              ELSE IF Len(call.val) # 1 THEN Called(call, srv, <<"RemoteSubnet4Update">>)
              ELSE Saved(call, srv, [config EXCEPT !.id = IntV(id.val)])))

(* a plausible slip: the plan is saved as it came, without the values the  *)
(* server returned                                                         *)
Subnet_Update_KeepPlan(c, config, srv) ==
    IF SubnetRequired(config) # <<>> THEN Rejected(SubnetRequired(config))
    ELSE With(DeriveID(config.subnet.v), LAMBDA id :
         IF ~ id.ok THEN Rejected(<<"RemoteSubnet4Create">>)
         ELSE With(RemoteSubnet4Set(c, config.hostname.v,
                                    <<NewRemoteSubnet4(config, id.val)>>, srv),
                   LAMBDA call :
              IF ~ call.err.nil THEN Called(call, srv, <<"RemoteSubnet4Update">>)
              ELSE IF Len(call.val) # 1 THEN Called(call, srv, <<"RemoteSubnet4Update">>)
              ELSE Saved(call, srv, config)))

(* remoteSubnet4Resource.Update: the same steps on the plan *)
Subnet_Update(c, config, srv) ==
    IF SubnetRequired(config) # <<>> THEN Rejected(SubnetRequired(config))
    ELSE With(DeriveID(config.subnet.v), LAMBDA id :
         IF ~ id.ok THEN Rejected(<<"RemoteSubnet4Create">>)
         ELSE With(RemoteSubnet4Set(c, config.hostname.v,
                                    <<NewRemoteSubnet4(config, id.val)>>, srv),
                   LAMBDA call :
              IF ~ call.err.nil THEN Called(call, srv, <<"RemoteSubnet4Update">>)
              ELSE IF Len(call.val) # 1 THEN Called(call, srv, <<"RemoteSubnet4Update">>)
              ELSE Saved(call, srv, [config EXCEPT !.id = IntV(call.val[1].id),
                                                   !.subnet = Str(call.val[1].subnet)])))

(* the two handlers that write a subnet *)
SubnetWriteOps == {"subnet.Create", "subnet.Update"}

(* the handler of op on the one client *)
Subnet_Write(op, config, srv) ==
    IF op = "subnet.Create" THEN Subnet_Create(client, config, srv)
    ELSE Subnet_Update(client, config, srv)

(* the option_data, pools and relay a Read copies from the server's subnet *)
OptionModels(optiondata) ==
    [i \in 1..Len(optiondata) |->
        Opt(IF optiondata[i].hascode THEN optiondata[i].code ELSE 0,
            optiondata[i].name, optiondata[i].data,
            IF optiondata[i].always_send THEN "true" ELSE "false")]

(* remoteSubnet4Resource.Read: an error whose text holds "not found" is    *)
(* passed over and the (empty) subnet returned with it is saved            *)
Subnet_Read(c, config, srv) ==
    IF SubnetRequired(config) # <<>> THEN Rejected(SubnetRequired(config))
    ELSE With(RemoteSubnet4GetByPrefix(c, config.hostname.v, config.subnet.v, srv),
              LAMBDA call :
         IF call.fault THEN Crashed(call, srv)
         ELSE IF ~ call.err.nil /\ ~ Contains(call.err.msg, NotFoundMarker)
         THEN Called(call, srv, <<"RemoteSubnet4GetByPrefix">>)
         ELSE Saved(call, srv,
                    [config EXCEPT !.id = IntV(call.val.id),
                                   !.option_data = OptionModels(call.val.optiondata),
                                   !.pools = call.val.pools,
                                   !.relay = call.val.relay,
                                   !.subnet = Str(call.val.subnet)]))

(* remoteSubnet4Resource.Delete *)
Subnet_Delete(c, config, srv) ==
    IF SubnetRequired(config) # <<>> THEN Rejected(SubnetRequired(config))
    ELSE With(RemoteSubnet4DelByPrefix(c, config.hostname.v, config.subnet.v, srv),
              LAMBDA call :
         IF ~ call.err.nil THEN Called(call, srv, <<"RemoteSubnet4DelByPrefix">>)
         ELSE Called(call, srv, <<>>))

---------------------------------------------------------------------------
(* Subnet data source: internal/provider/remote_subnet4_data_source.go *)

(* a plausible slip: only the case of neither selector is rejected *)
DataSourceInvalid_NeitherOnly(config) ==
    (IF config.prefix.st = "null" /\ config.subnet_id.st = "null"
     THEN <<"Invalid Configuration">> ELSE <<>>)
      \o (IF config.hostname.v = <<>> THEN <<"Invalid Configuration">> ELSE <<>>)

(* the checks of the data source: one and only one of prefix and           *)
(* subnet_id, by IsNull alone; a hostname whose ValueString is not ""      *)
DataSourceInvalid(config) ==
    (IF (config.prefix.st # "null" /\ config.subnet_id.st # "null")
          \/ (config.prefix.st = "null" /\ config.subnet_id.st = "null")
     THEN <<"Invalid Configuration">> ELSE <<>>)
      \o (IF config.hostname.v = <<>> THEN <<"Invalid Configuration">> ELSE <<>>)

(* remoteSubnet4DataSource.Read: by prefix when prefix is not null, else   *)
(* by id; an error whose text holds "not found" is passed over             *)
DataSource_Read(c, config, srv) ==
    IF DataSourceInvalid(config) # <<>> THEN Rejected(DataSourceInvalid(config))
    ELSE With(IF config.prefix.st # "null"
              THEN RemoteSubnet4GetByPrefix(c, config.hostname.v, config.prefix.v, srv)
              ELSE RemoteSubnet4GetByID(c, config.hostname.v, config.subnet_id.n, srv),
              LAMBDA call :
         IF call.fault THEN Crashed(call, srv)
         ELSE IF ~ call.err.nil /\ ~ Contains(call.err.msg, NotFoundMarker)
         THEN Called(call, srv, IF config.prefix.st # "null"
                                THEN <<"RemoteSubnet4GetByPrefix">>
                                ELSE <<"RemoteSubnet4GetByID">>)
         ELSE Saved(call, srv,
                    [hostname |-> config.hostname, id |-> IntV(call.val.id),
                     subnet |-> Str(call.val.subnet), pools |-> call.val.pools,
                     relay |-> call.val.relay,
                     option_data |-> OptionModels(call.val.optiondata)]))

---------------------------------------------------------------------------
(* Option definitions: tools/kea/remote_option_def4.go and                 *)
(* internal/provider/remote_option_def4_resource.go                        *)

ZeroOptDef == [name |-> <<>>, code |-> 0, type |-> <<>>, array |-> FALSE,
               record_types |-> <<>>, space |-> <<>>, encapsulate |-> <<>>]

NilOptDef == [isnil |-> TRUE, def |-> ZeroOptDef]

(* Client.RemoteOptionDef4Set *)
RemoteOptionDef4Set(c, hostname, def, srv) ==
    With(make(c, "POST", hostname,
              Request("remote-option-def4-set",
                      [remote |-> [type |-> c.remote], servertags |-> <<"all">>,
                       optiondefs |-> <<def>>])), LAMBDA m :
        IF ~ m.err.nil THEN Ret(<<>>, m.err, NoOut)
        ELSE Ret(<<m.req>>, do(m.req, Reply(srv, m.req), "any").err, NoOut))

(* Client.RemoteOptionDef4Get: nil without an error when the error text    *)
(* holds "not found" or the list is empty                                  *)
RemoteOptionDef4Get(c, hostname, space, code, srv) ==
    With(make(c, "POST", hostname,
              Request("remote-option-def4-get",
                      [remote |-> [type |-> c.remote], servertags |-> <<"all">>,
                       optiondefs |-> << [ZeroOptDef EXCEPT !.space = space,
                                                           !.code = code] >>])),
         LAMBDA m :
        IF ~ m.err.nil THEN Ret(<<>>, m.err, NilOptDef)
        ELSE With(do(m.req, Reply(srv, m.req), "optdefs"), LAMBDA d :
             IF ~ d.err.nil
             THEN IF Contains(d.err.msg, NotFoundMarker)
                  THEN Ret(<<m.req>>, NilErr, NilOptDef)
                  ELSE Ret(<<m.req>>, d.err, NilOptDef)
             ELSE IF Len(d.val.optdefs) = 0 THEN Ret(<<m.req>>, NilErr, NilOptDef)
             ELSE Ret(<<m.req>>, NilErr, [isnil |-> FALSE, def |-> d.val.optdefs[1]])))

(* Client.RemoteOptionDef4Del *)
RemoteOptionDef4Del(c, hostname, space, code, srv) ==
    With(make(c, "POST", hostname,
              Request("remote-option-def4-del",
                      [remote |-> [type |-> c.remote], servertags |-> <<"all">>,
                       optiondefs |-> << [ZeroOptDef EXCEPT !.space = space,
                                                           !.code = code] >>])),
         LAMBDA m :
        IF ~ m.err.nil THEN Ret(<<>>, m.err, NoOut)
        ELSE Ret(<<m.req>>, do(m.req, Reply(srv, m.req), "any").err, NoOut))

(* types.Int64: IsNull() || IsUnknown() *)
IntMissing(x) == x.st = "null" \/ x.st = "unknown"

(* the required-field checks of Create and Update *)
OptDefRequired(config) ==
    (IF IsMissing(config.hostname) THEN <<"hostname field is required">> ELSE <<>>)
      \o (IF IntMissing(config.code) THEN <<"code field is required">> ELSE <<>>)
      \o (IF IsMissing(config.name) THEN <<"name field is required">> ELSE <<>>)
      \o (IF IsMissing(config.type) THEN <<"type field is required">> ELSE <<>>)
      \o (IF IsMissing(config.space) THEN <<"space field is required">> ELSE <<>>)

(* the required-field checks of Read and Delete *)
OptDefKeyRequired(config) ==
    (IF IsMissing(config.hostname) THEN <<"hostname field is required">> ELSE <<>>)
      \o (IF IntMissing(config.code) THEN <<"code field is required">> ELSE <<>>)
      \o (IF IsMissing(config.space) THEN <<"space field is required">> ELSE <<>>)

(* the kea.RemoteOptionDef4 that Create and Update build from the config *)
NewRemoteOptionDef4(config) ==
    [name |-> config.name.v, code |-> config.code.n, type |-> config.type.v,
     array |-> ValueBool(config.array), record_types |-> config.record_types.v,
     space |-> config.space.v, encapsulate |-> config.encapsulate.v]

(* a plausible slip: the return after AddError is missing, and the handler *)
(* goes on to save the state                                               *)
OptDef_Create_NoReturn(c, config, srv) ==
    IF OptDefRequired(config) # <<>> THEN Rejected(OptDefRequired(config))
    ELSE With(RemoteOptionDef4Set(c, config.hostname.v, NewRemoteOptionDef4(config),
                                  srv), LAMBDA call :
         IF ~ call.err.nil
         THEN [Saved(call, srv, config) EXCEPT !.diags = <<"RemoteOptionDef4Set">>]
         ELSE Saved(call, srv, config))

(* remoteOptionDef4Resource.Create *)
OptDef_Create(c, config, srv) ==
    IF OptDefRequired(config) # <<>> THEN Rejected(OptDefRequired(config))
    ELSE With(RemoteOptionDef4Set(c, config.hostname.v, NewRemoteOptionDef4(config),
                                  srv), LAMBDA call :
         IF ~ call.err.nil THEN Called(call, srv, <<"RemoteOptionDef4Set">>)
         ELSE Saved(call, srv, config))

(* a plausible slip: Update sends only the key of the definition and what  *)
(* it takes for changed, not the whole definition                          *)
OptDef_Update_KeyOnly(c, config, srv) ==
    IF OptDefRequired(config) # <<>> THEN Rejected(OptDefRequired(config))
    ELSE With(RemoteOptionDef4Set(c, config.hostname.v,
                                  [ZeroOptDef EXCEPT !.space = config.space.v,
                                                     !.code = config.code.n,
                                                     !.type = config.type.v],
                                  srv), LAMBDA call :
         IF ~ call.err.nil THEN Called(call, srv, <<"RemoteOptionDef4Update">>)
         ELSE Saved(call, srv, config))

(* remoteOptionDef4Resource.Update *)
OptDef_Update(c, config, srv) ==
    IF OptDefRequired(config) # <<>> THEN Rejected(OptDefRequired(config))
    ELSE With(RemoteOptionDef4Set(c, config.hostname.v, NewRemoteOptionDef4(config),
                                  srv), LAMBDA call :
         IF ~ call.err.nil THEN Called(call, srv, <<"RemoteOptionDef4Update">>)
         ELSE Saved(call, srv, config))

(* the fields a Read copies from the server's definition when they are set *)
OptDefRefreshed(config, def) ==
    [config EXCEPT
       !.type = IF def.type # <<>> THEN Str(def.type) ELSE @,
       !.array = IF def.array THEN "true" ELSE @,
       !.record_types = IF def.record_types # <<>> THEN Str(def.record_types) ELSE @,
       !.encapsulate = IF def.encapsulate # <<>> THEN Str(def.encapsulate) ELSE @]

(* remoteOptionDef4Resource.Read: respData.Type on the nil definition that *)
(* RemoteOptionDef4Get returns for an absent one is a nil dereference, a   *)
(* run-time panic                                                          *)
OptDef_Read(c, config, srv) ==
    IF OptDefKeyRequired(config) # <<>> THEN Rejected(OptDefKeyRequired(config))
    ELSE With(RemoteOptionDef4Get(c, config.hostname.v, config.space.v,
                                  config.code.n, srv), LAMBDA call :
         IF ~ call.err.nil /\ ~ Contains(call.err.msg, NotFoundMarker)
         THEN Called(call, srv, <<"RemoteOptionDef4Set">>)
         ELSE IF call.val.isnil THEN Crashed(call, srv)
         ELSE Saved(call, srv, OptDefRefreshed(config, call.val.def)))

(* remoteOptionDef4Resource.Delete *)
OptDef_Delete(c, config, srv) ==
    IF OptDefKeyRequired(config) # <<>> THEN Rejected(OptDefKeyRequired(config))
    ELSE With(RemoteOptionDef4Del(c, config.hostname.v, config.space.v,
                                  config.code.n, srv), LAMBDA call :
         IF ~ call.err.nil THEN Called(call, srv, <<"RemoteOptionDef4Del">>)
         ELSE Called(call, srv, <<>>))

---------------------------------------------------------------------------
(* Reservations: tools/kea/reservation.go and the reservation resource     *)

(* a plausible slip: the hardware address is checked and sent as given *)
ReservationAdd_AsGiven(c, hostname, res, srv) ==
    IF ~ ParseIP(res.ipaddress) THEN Ret(<<>>, Err(ErrInvalidIP), NoOut)
    ELSE With(ParseMAC(res.hwaddress), LAMBDA mac :
         IF ~ mac.ok THEN Ret(<<>>, Err(ErrInvalidMAC), NoOut)
         ELSE With(make(c, "POST", hostname,
                        Request("reservation-add", [reservation |-> res])),
                   LAMBDA m :
              IF ~ m.err.nil THEN Ret(<<>>, m.err, NoOut)
              ELSE Ret(<<m.req>>, do(m.req, Reply(srv, m.req), "options").err, NoOut)))

(* Client.ReservationAdd: the addresses are checked before anything is     *)
(* built, and the hardware address is sent in its canonical form           *)
ReservationAdd(c, hostname, res, srv) ==
    IF ~ ParseIP(res.ipaddress) THEN Ret(<<>>, Err(ErrInvalidIP), NoOut)
    ELSE With(ParseMAC(res.hwaddress), LAMBDA mac :
         IF ~ mac.ok THEN Ret(<<>>, Err(ErrInvalidMAC), NoOut)
         ELSE With(make(c, "POST", hostname,
                        Request("reservation-add",
                                [reservation |->
                                    [res EXCEPT !.hwaddress = HwString(mac.hw)]])),
                   LAMBDA m :
              IF ~ m.err.nil THEN Ret(<<>>, m.err, NoOut)
              ELSE Ret(<<m.req>>, do(m.req, Reply(srv, m.req), "options").err, NoOut)))

(* Client.ReservationUpdate, which the Update handler calls: the uniform   *)
(* dispatch of a command module, build the command, make, do               *)
ReservationUpdate(c, hostname, res, srv) ==
    With(make(c, "POST", hostname,
              Request("reservation-update", [reservation |-> res])), LAMBDA m :
        IF ~ m.err.nil THEN Ret(<<>>, m.err, NoOut)
        ELSE Ret(<<m.req>>, do(m.req, Reply(srv, m.req), "any").err, NoOut))

(* a plausible slip: the address check of ReservationAdd is not repeated   *)
(* in ReservationDel                                                       *)
ReservationDel_NoCheck(c, hostname, ipAddress, subnetID, srv) ==
    With(make(c, "POST", hostname,
              Request("reservation-del",
                      [subnetid |-> subnetID, ipaddress |-> ipAddress])),
         LAMBDA m :
        IF ~ m.err.nil THEN Ret(<<>>, m.err, NoOut)
        ELSE Ret(<<m.req>>, do(m.req, Reply(srv, m.req), "any").err, NoOut))

(* Client.ReservationDel *)
ReservationDel(c, hostname, ipAddress, subnetID, srv) ==
    IF ~ ParseIP(ipAddress) THEN Ret(<<>>, Err(ErrInvalidIP), NoOut)
    ELSE With(make(c, "POST", hostname,
                   Request("reservation-del",
                           [subnetid |-> subnetID, ipaddress |-> ipAddress])),
              LAMBDA m :
         IF ~ m.err.nil THEN Ret(<<>>, m.err, NoOut)
         ELSE Ret(<<m.req>>, do(m.req, Reply(srv, m.req), "any").err, NoOut))

(* the required-field checks of Create and Update *)
ResvRequired(config) ==
    (IF IntMissing(config.subnet_id) THEN <<"subnet_id is required">> ELSE <<>>)
      \o (IF IsMissing(config.hostname) THEN <<"hostname field is required">> ELSE <<>>)
      \o (IF IsMissing(config.reservation_hostname)
          THEN <<"reservation_hostname field is required">> ELSE <<>>)
      \o (IF IsMissing(config.ip_address) THEN <<"ip_address field is required">>
          ELSE <<>>)
      \o (IF IsMissing(config.hw_address) THEN <<"hw_address field is required">>
          ELSE <<>>)

(* the required-field checks of Delete: the hardware address is not one *)
ResvKeyRequired(config) ==
    (IF IntMissing(config.subnet_id) THEN <<"subnet_id is required">> ELSE <<>>)
      \o (IF IsMissing(config.hostname) THEN <<"hostname field is required">> ELSE <<>>)
      \o (IF IsMissing(config.reservation_hostname)
          THEN <<"reservation_hostname field is required">> ELSE <<>>)
      \o (IF IsMissing(config.ip_address) THEN <<"ip_address field is required">>
          ELSE <<>>)

(* the kea.Reservation that Create and Update build; the optional          *)
(* attributes are not set in the configurations of the model               *)
NewReservation(config) ==
    [hostname |-> config.reservation_hostname.v, ipaddress |-> config.ip_address.v,
     hwaddress |-> config.hw_address.v, subnetid |-> config.subnet_id.n,
     optiondata |-> <<>>]

(* reservationResource.Create *)
Resv_Create(c, config, srv) ==
    IF ResvRequired(config) # <<>> THEN Rejected(ResvRequired(config))
    ELSE With(ReservationAdd(c, config.hostname.v, NewReservation(config), srv),
              LAMBDA call :
         IF ~ call.err.nil THEN Called(call, srv, <<"ReservationAdd">>)
         ELSE Saved(call, srv, config))

(* reservationResource.Update *)
Resv_Update(c, config, srv) ==
    IF ResvRequired(config) # <<>> THEN Rejected(ResvRequired(config))
    ELSE With(ReservationUpdate(c, config.hostname.v, NewReservation(config), srv),
              LAMBDA call :
         IF ~ call.err.nil THEN Called(call, srv, <<"ReservationUpdate">>)
         ELSE Saved(call, srv, config))

(* reservationResource.Delete *)
Resv_Delete(c, config, srv) ==
    IF ResvKeyRequired(config) # <<>> THEN Rejected(ResvKeyRequired(config))
    ELSE With(ReservationDel(c, config.hostname.v, config.ip_address.v,
                             config.subnet_id.n, srv), LAMBDA call :
         IF ~ call.err.nil THEN Called(call, srv, <<"ReservationDel">>)
         ELSE Called(call, srv, <<>>))

---------------------------------------------------------------------------
(* State machine: one managed resource at a time, one handler call at a    *)
(* time.  last is the response of the call in progress, sent the requests  *)
(* it put on the wire, tf the Terraform state the framework keeps, server  *)
(* what the configuration backend stores                                   *)

NoState == [kind |-> "none", data |-> NoOut]

Idle == [op |-> "none", input |-> NoOut, choice |-> NoChoice, err |-> NilErr,
         diags |-> <<>>, wrote |-> FALSE, out |-> NoOut, ent |-> NoOut,
         fault |-> FALSE]

NoPure == [fn |-> "none"]

(* the configuration backend behind the server, with nothing stored *)
NoStore == [subnets |-> {}, optdefs |-> {}]

(* no handler runs beside the one in progress *)
NoCallers == <<>>

(* the outcome r of a call of op on input *)
Outcome(op, input, r) ==
    [op |-> op, input |-> input, choice |-> r.choice, err |-> r.err,
     diags |-> r.diags, wrote |-> r.wrote, out |-> r.out, ent |-> r.ent,
     fault |-> r.fault]

(* the server is asked only when a request goes out: a handler run that    *)
(* sends nothing has one outcome, whatever the server would have said      *)
Asked(srv, r) == (srv = NoChoice) <=> (r.sent = <<>>)

(* the outcome r of handler op on input becomes the last operation; the    *)
(* framework keeps the state a handler saved and the prior state otherwise *)
Finish(op, kind, input, srv, r) ==
    /\ Asked(srv, r)
    /\ last' = Outcome(op, input, r)
    /\ sent' = r.sent
    /\ tf' = IF r.wrote THEN [kind |-> kind, data |-> r.out] ELSE tf
    /\ UNCHANGED <<client, pure, server, callers>>

(* the framework drops the state after a Delete without diagnostics *)
FinishDelete(op, input, srv, r) ==
    /\ Asked(srv, r)
    /\ last' = Outcome(op, input, r)
    /\ sent' = r.sent
    /\ tf' = IF r.diags = <<>> /\ ~ r.fault THEN NoState ELSE tf
    /\ UNCHANGED <<client, pure, server, callers>>

(* a call that leaves the managed state alone: a data source, or a program *)
(* using the client itself                                                 *)
FinishData(op, input, srv, r) ==
    /\ Asked(srv, r)
    /\ last' = Outcome(op, input, r)
    /\ sent' = r.sent
    /\ UNCHANGED <<client, tf, pure, server, callers>>

Answers == ServerChoices \cup {NoChoice}

remoteSubnet4Resource_Create ==
    /\ last.op = "none"
    /\ tf.kind = "none"
    /\ \E config \in SubnetConfigs, srv \in Answers :
          Finish("subnet.Create", "subnet", config, srv,
                 Subnet_Create(client, config, srv))

remoteSubnet4Resource_Read ==
    /\ last.op = "none"
    /\ tf.kind = "subnet"
    /\ \E srv \in Answers :
          Finish("subnet.Read", "subnet", tf.data, srv,
                 Subnet_Read(client, tf.data, srv))

remoteSubnet4Resource_Update ==
    /\ last.op = "none"
    /\ tf.kind = "subnet"
    /\ \E config \in SubnetConfigs, srv \in Answers :
          Finish("subnet.Update", "subnet", config, srv,
                 Subnet_Update(client, config, srv))

remoteSubnet4Resource_Delete ==
    /\ last.op = "none"
    /\ tf.kind = "subnet"
    /\ \E srv \in Answers :
          FinishDelete("subnet.Delete", tf.data, srv,
                       Subnet_Delete(client, tf.data, srv))

remoteSubnet4DataSource_Read ==
    /\ last.op = "none"
    /\ \E config \in DataSourceConfigs, srv \in Answers :
          FinishData("datasource.Read", config, srv,
                     DataSource_Read(client, config, srv))

remoteOptionDef4Resource_Create ==
    /\ last.op = "none"
    /\ tf.kind = "none"
    /\ \E config \in OptDefConfigs, srv \in Answers :
          Finish("optdef.Create", "optdef", config, srv,
                 OptDef_Create(client, config, srv))

remoteOptionDef4Resource_Read ==
    /\ last.op = "none"
    /\ tf.kind = "optdef"
    /\ \E srv \in Answers :
          Finish("optdef.Read", "optdef", tf.data, srv,
                 OptDef_Read(client, tf.data, srv))

remoteOptionDef4Resource_Update ==
    /\ last.op = "none"
    /\ tf.kind = "optdef"
    /\ \E config \in OptDefConfigs, srv \in Answers :
          Finish("optdef.Update", "optdef", config, srv,
                 OptDef_Update(client, config, srv))

remoteOptionDef4Resource_Delete ==
    /\ last.op = "none"
    /\ tf.kind = "optdef"
    /\ \E srv \in Answers :
          FinishDelete("optdef.Delete", tf.data, srv,
                       OptDef_Delete(client, tf.data, srv))

reservationResource_Create ==
    /\ last.op = "none"
    /\ tf.kind = "none"
    /\ \E config \in ResvConfigs, srv \in Answers :
          Finish("reservation.Create", "reservation", config, srv,
                 Resv_Create(client, config, srv))

reservationResource_Update ==
    /\ last.op = "none"
    /\ tf.kind = "reservation"
    /\ \E config \in ResvConfigs, srv \in Answers :
          Finish("reservation.Update", "reservation", config, srv,
                 Resv_Update(client, config, srv))

reservationResource_Delete ==
    /\ last.op = "none"
    /\ tf.kind = "reservation"
    /\ \E srv \in Answers :
          FinishDelete("reservation.Delete", tf.data, srv,
                       Resv_Delete(client, tf.data, srv))

(* a program calling the client itself, outside Terraform, as the example  *)
(* main does; its result is only printed                                   *)
main ==
    /\ last.op = "none"
    /\ tf.kind = "none"
    /\ \E sn \in CallerSubnets, srv \in Answers :
          FinishData("client.RemoteSubnet4Set", sn, srv,
                     With(RemoteSubnet4Set(client, HostKea, <<sn>>, srv),
                          LAMBDA call : Called(call, srv, <<>>)))

(* the framework takes the handler's response; the next call can start *)
Return ==
    /\ last.op # "none"
    /\ last' = Idle
    /\ sent' = <<>>
    /\ UNCHANGED <<client, tf, pure, server, callers>>

Init ==
    /\ client = [remote |-> "postgresql", username |-> "kea-user",
                 password |-> "kea-pass"]
    /\ tf = NoState
    /\ last = Idle
    /\ sent = <<>>
    /\ server = NoStore
    /\ callers = NoCallers
    /\ pure = NoPure

Next ==
    \/ remoteSubnet4Resource_Create
    \/ remoteSubnet4Resource_Read
    \/ remoteSubnet4Resource_Update
    \/ remoteSubnet4Resource_Delete
    \/ remoteSubnet4DataSource_Read
    \/ remoteOptionDef4Resource_Create
    \/ remoteOptionDef4Resource_Read
    \/ remoteOptionDef4Resource_Update
    \/ remoteOptionDef4Resource_Delete
    \/ reservationResource_Create
    \/ reservationResource_Update
    \/ reservationResource_Delete
    \/ main
    \/ Return

Spec == Init /\ [][Next]_vars

---------------------------------------------------------------------------
(* The handlers against a server that honours set and delete: its answers  *)
(* follow from what the configuration backend stores, and the set commands *)
(* are upserts                                                             *)

(* configurations every check of a handler accepts *)
ValidSubnetConfigs ==
    {c \in SubnetConfigs : c.hostname = Str(HostKea) /\ DeriveID(c.subnet.v).ok}

ValidOptDefConfigs ==
    {c \in OptDefConfigs : c.hostname = Str(HostKea) /\ OptDefRequired(c) = <<>>}

(* the answers of the server to the command body when the backend holds    *)
(* store: a set succeeds and echoes the entity; a get returns the subnet   *)
(* stored under the prefix; a delete succeeds on a stored prefix; a get or *)
(* delete of a prefix that is not stored is answered with result 3 and one *)
(* of the server's texts                                                   *)
Honest(store, body) ==
    CASE body.command \in {"remote-subnet4-set", "remote-option-def4-set"} ->
            { [kind |-> "reply", result |-> 0, text |-> TxtSuccess,
               args |-> ArgObject(<<"echo">>)] }
      [] body.command = "remote-subnet4-get-by-prefix" ->
            IF \E s \in store.subnets : s.subnet = body.arguments.subnets[1].subnet
            THEN { [kind |-> "reply", result |-> 0, text |-> TxtSuccess,
                    args |-> [kind |-> "held", items |-> <<s>>]] :
                     s \in {x \in store.subnets :
                              x.subnet = body.arguments.subnets[1].subnet} }
            ELSE { [kind |-> "reply", result |-> 3, text |-> t, args |-> ArgAbsent] :
                     t \in Texts }
      [] body.command = "remote-subnet4-del-by-prefix" ->
            IF \E s \in store.subnets : s.subnet = body.arguments.subnets[1].subnet
            THEN { [kind |-> "reply", result |-> 0, text |-> TxtSuccess,
                    args |-> ArgObject(<<"echo">>)] }
            ELSE { [kind |-> "reply", result |-> 3, text |-> t, args |-> ArgAbsent] :
                     t \in Texts }
      [] OTHER -> {}

(* a server that checks for a stored subnet of the prefix and keeps it *)
Applied_FirstWins(store, body) ==
    CASE body.command = "remote-subnet4-set" ->
            IF \E s \in store.subnets : s.subnet = body.arguments.subnets[1].subnet
            THEN store
            ELSE [store EXCEPT !.subnets = @ \cup {body.arguments.subnets[1]}]
      [] body.command = "remote-subnet4-del-by-prefix" ->
            [store EXCEPT !.subnets =
                {s \in @ : s.subnet # body.arguments.subnets[1].subnet}]
      [] body.command = "remote-option-def4-set" ->
            [store EXCEPT !.optdefs =
                {d \in @ : \/ d.space # body.arguments.optiondefs[1].space
                           \/ d.code # body.arguments.optiondefs[1].code}
                  \cup {body.arguments.optiondefs[1]}]
      [] OTHER -> store

(* what the backend stores once the server has handled the command body:   *)
(* a set replaces the entity of the same key (id or prefix; space and      *)
(* code), a delete removes the subnet of the prefix                        *)
Applied(store, body) ==
    CASE body.command = "remote-subnet4-set" ->
            [store EXCEPT !.subnets =
                {s \in @ : /\ s.id # body.arguments.subnets[1].id
                           /\ s.subnet # body.arguments.subnets[1].subnet}
                  \cup {body.arguments.subnets[1]}]
      [] body.command = "remote-subnet4-del-by-prefix" ->
            [store EXCEPT !.subnets =
                {s \in @ : s.subnet # body.arguments.subnets[1].subnet}]
      [] body.command = "remote-option-def4-set" ->
            [store EXCEPT !.optdefs =
                {d \in @ : \/ d.space # body.arguments.optiondefs[1].space
                           \/ d.code # body.arguments.optiondefs[1].code}
                  \cup {body.arguments.optiondefs[1]}]
      [] OTHER -> store

(* one call of a handler against that server: reqs are the requests the    *)
(* handler sends, Handler(srv) its outcome when the server answers srv.    *)
(* The framework keeps a saved state, drops the state after a Delete       *)
(* (kind "none") without diagnostics and keeps the prior state otherwise   *)
Served(op, kind, input, reqs, Handler(_)) ==
    /\ last.op = "none"
    /\ \E srv \in (IF reqs = <<>> THEN {NoChoice} ELSE Honest(server, reqs[1].body)) :
          With(Handler(srv), LAMBDA r :
              /\ last' = Outcome(op, input, r)
              /\ sent' = r.sent
              /\ tf' = IF r.wrote /\ kind \notin {"none", "data"}
                       THEN [kind |-> kind, data |-> r.out]
                       ELSE IF kind = "none" /\ r.diags = <<>> /\ ~ r.fault
                       THEN NoState
                       ELSE tf
              /\ server' = IF r.sent = <<>> THEN server
                           ELSE Applied(server, r.sent[1].body))
    /\ UNCHANGED <<client, pure, callers>>

Served_remoteSubnet4Resource_Create ==
    /\ tf.kind = "none"
    /\ \E config \in ValidSubnetConfigs :
          Served("subnet.Create", "subnet", config,
                 Subnet_Create(client, config, NoChoice).sent,
                 LAMBDA srv : Subnet_Create(client, config, srv))

Served_remoteSubnet4Resource_Read ==
    /\ tf.kind = "subnet"
    /\ Served("subnet.Read", "subnet", tf.data,
              Subnet_Read(client, tf.data, NoChoice).sent,
              LAMBDA srv : Subnet_Read(client, tf.data, srv))

Served_remoteSubnet4Resource_Update ==
    /\ tf.kind = "subnet"
    /\ \E config \in ValidSubnetConfigs :
          Served("subnet.Update", "subnet", config,
                 Subnet_Update(client, config, NoChoice).sent,
                 LAMBDA srv : Subnet_Update(client, config, srv))

Served_remoteSubnet4Resource_Delete ==
    /\ tf.kind = "subnet"
    /\ Served("subnet.Delete", "none", tf.data,
              Subnet_Delete(client, tf.data, NoChoice).sent,
              LAMBDA srv : Subnet_Delete(client, tf.data, srv))

Served_remoteSubnet4DataSource_Read ==
    /\ last.op = "none"
    /\ \E config \in {c \in DataSourceConfigs :
                        DataSourceInvalid(c) = <<>> /\ c.hostname = Str(HostKea)
                          /\ c.prefix.st # "null"} :
          Served("datasource.Read", "data", config,
                 DataSource_Read(client, config, NoChoice).sent,
                 LAMBDA srv : DataSource_Read(client, config, srv))

Served_remoteOptionDef4Resource_Create ==
    /\ tf.kind = "none"
    /\ \E config \in ValidOptDefConfigs :
          Served("optdef.Create", "optdef", config,
                 OptDef_Create(client, config, NoChoice).sent,
                 LAMBDA srv : OptDef_Create(client, config, srv))

Served_remoteOptionDef4Resource_Update ==
    /\ tf.kind = "optdef"
    /\ \E config \in ValidOptDefConfigs :
          Served("optdef.Update", "optdef", config,
                 OptDef_Update(client, config, NoChoice).sent,
                 LAMBDA srv : OptDef_Update(client, config, srv))

NextStore ==
    \/ Served_remoteSubnet4Resource_Create
    \/ Served_remoteSubnet4Resource_Read
    \/ Served_remoteSubnet4Resource_Update
    \/ Served_remoteSubnet4Resource_Delete
    \/ Served_remoteSubnet4DataSource_Read
    \/ Served_remoteOptionDef4Resource_Create
    \/ Served_remoteOptionDef4Resource_Update
    \/ Return

SpecStore == Init /\ [][NextStore]_vars

---------------------------------------------------------------------------
(* Client.do on its own: every body a response can carry, every decode     *)
(* target the client uses                                                  *)

ArgObjects ==
    { ZeroArgs,
      [subnets |-> <<OtherSubnet>>, count |-> 1,
       optdefs |-> <<StoredOptDef(SpaceDhcp4, 222)>>] }

ArgBodies ==
    { [kind |-> k, obj |-> ZeroArgs] : k \in {"absent", "null", "scalar"} }
      \cup { [kind |-> "object", obj |-> o] : o \in ArgObjects }

(* an element that is no response object, such as a number *)
BadElement == [NoResponse EXCEPT !.wf = FALSE]

FirstElements ==
    { [wf |-> TRUE, result |-> r, text |-> t, arguments |-> a] :
        r \in 0..4, t \in Texts \cup {TxtSuccess}, a \in ArgBodies }
      \cup {BadElement}

LaterElements == { [NoResponse EXCEPT !.text = TxtSuccess], BadElement }

DoBodies ==
    { [kind |-> "malformed", elems |-> <<>>], [kind |-> "array", elems |-> <<>>] }
      \cup { [kind |-> "array", elems |-> <<e>> \o rest] :
                e \in FirstElements,
                rest \in UNION {[1..n -> LaterElements] : n \in 0..(MaxReply - 1)} }

DoOutcomes ==
    { [kind |-> "neterr", body |-> [kind |-> "malformed", elems |-> <<>>]] }
      \cup { [kind |-> "response", body |-> b] : b \in DoBodies }

DecodeTargets == {"nil", "any", "subnets", "subnetlist", "count", "optdefs", "options"}

NoDo == [err |-> NilErr, hasres |-> FALSE, res |-> NoResponse, val |-> ZeroArgs,
         body |-> "none"]

InitDo ==
    /\ client = [remote |-> "postgresql", username |-> "kea-user",
                 password |-> "kea-pass"]
    /\ tf = NoState
    /\ last = Idle
    /\ sent = <<>>
    /\ server = NoStore
    /\ callers = NoCallers
    /\ pure \in { [fn |-> "do", done |-> FALSE, outcome |-> o, v |-> v, r |-> NoDo] :
                     o \in DoOutcomes, v \in DecodeTargets }

Client_do ==
    /\ pure.fn = "do"
    /\ ~ pure.done
    /\ pure' = [pure EXCEPT
                  !.done = TRUE,
                  !.r = do(make(client, "POST", HostKea, Request("list-commands", <<>>)).req,
                           pure.outcome, pure.v)]
    /\ UNCHANGED <<client, tf, last, sent, server, callers>>

NextDo == Client_do

SpecDo == InitDo /\ [][NextDo]_vars

---------------------------------------------------------------------------
(* The identifier derivation on its own, on pairs of prefixes *)

(* prefixes as a configuration may write them: /24 networks, other prefix  *)
(* lengths, and one address with host bits set; the identifiers stay below *)
(* 2^31                                                                    *)
Networks ==
    { [o |-> <<a, b, c, 0>>, n |-> 24] :
        a \in {1, 11, 192}, b \in {1, 11, 168}, c \in {0, 1, 225} }
      \cup { [o |-> <<10, 0, 0, 0>>, n |-> 8], [o |-> <<172, 16, 0, 0>>, n |-> 16],
              [o |-> <<192, 168, 1, 5>>, n |-> 32], [o |-> <<0, 0, 0, 0>>, n |-> 0],
              [o |-> <<192, 168, 225, 7>>, n |-> 24] }

NoID == [ok |-> FALSE, val |-> 0]

InitDerive ==
    /\ client = [remote |-> "postgresql", username |-> "kea-user",
                 password |-> "kea-pass"]
    /\ tf = NoState
    /\ last = Idle
    /\ sent = <<>>
    /\ server = NoStore
    /\ callers = NoCallers
    /\ pure \in { [fn |-> "derive", done |-> FALSE, a |-> a, b |-> b,
                    ra |-> NoID, rb |-> NoID] : a \in Networks, b \in Networks }

(* the derivation of Create and Update, applied to both prefixes *)
Derive ==
    /\ pure.fn = "derive"
    /\ ~ pure.done
    /\ pure' = [pure EXCEPT !.done = TRUE,
                            !.ra = DeriveID(CIDR(pure.a.o, pure.a.n)),
                            !.rb = DeriveID(CIDR(pure.b.o, pure.b.n))]
    /\ UNCHANGED <<client, tf, last, sent, server, callers>>

NextDerive == Derive

SpecDerive == InitDerive /\ [][NextDerive]_vars

---------------------------------------------------------------------------
(* The client's own entry points, called as a Go program calls them: the   *)
(* reservation commands with the addresses a caller may pass, make with    *)
(* the hostnames a caller may pass, and the construction of the client     *)
(* from the option and the environment                                     *)

(* ip-address texts: empty, an octet above 255, a host address, IPv6       *)
(* literals and three octets                                               *)
CallIPs ==
    { <<>>,
      <<"9", "9", "9", ".", "1", ".", "1", ".", "1">>,
      <<"1", "9", "2", ".", "1", "6", "8", ".", "1", ".", "5">>,
      <<":", ":", "1">>,
      <<"1", "9", "2", ".", "1", "6", "8", ".", "1">>,
      <<"2", "0", "0", "1", ":", "d", "b", "8", ":", ":", "1">> }

(* hw-address texts: one address in upper, lower and mixed case, in the    *)
(* hyphen and the dot form, and texts that are no address                  *)
CallMACs ==
    { <<"B", "8", ":", "2", "7", ":", "E", "B", ":", "9", "C", ":", "A", "E", ":", "B", "7">>,
      <<"b", "8", ":", "2", "7", ":", "e", "b", ":", "9", "c", ":", "a", "e", ":", "b", "7">>,
      <<"B", "8", ":", "2", "7", ":", "e", "b", ":", "9", "C", ":", "a", "e", ":", "b", "7">>,
      <<"b", "8", "-", "2", "7", "-", "e", "b", "-", "9", "c", "-", "a", "e", "-", "b", "7">>,
      <<"b", "8", "2", "7", ".", "e", "b", "9", "c", ".", "a", "e", "b", "7">>,
      <<"n", "o", "t", "-", "a", "-", "m", "a", "c">>,
      <<>>,
      <<"b", "8", ":", "2", "7", ":", "e", "b", ":", "9", "c", ":", "a", "e">>,
      <<"B", "8", ":", "2", "7", ":", "E", "B", ":", "9", "C", ":", "A", "E", ":", "G", "7">> }

(* hostnames: bare, with a trailing slash, with the https scheme, with     *)
(* another scheme, with a port, with a space, and empty                    *)
CallURLs ==
    { <<"k", "e", "a">>,
      <<"k", "e", "a", "/">>,
      <<"h", "t", "t", "p", "s", ":", "/", "/", "k", "e", "a">>,
      <<"h", "t", "t", "p", "s", ":", "/", "/", "k", "e", "a", "/">>,
      <<"h", "t", "t", "p", ":", "/", "/", "k", "e", "a">>,
      <<"h", "t", "t", "p", ":", "/", "/", "k", "e", "a", "/">>,
      <<"k", "e", "a", ":", "8", "0", "0", "0">>,
      <<"H", "T", "T", "P", "S", ":", "/", "/", "k", "e", "a", "/">>,
      <<"b", "a", "d", " ", "h", "o", "s", "t">>,
      <<>> }

(* the two server answers a reservation command is checked under *)
CallAnswers ==
    { [kind |-> "reply", result |-> 0, text |-> TxtSuccess, args |-> ArgAbsent],
      [kind |-> "reply", result |-> 1, text |-> TxtNoResources, args |-> ArgAbsent] }

(* the kea.Reservation a caller passes *)
CallReservation(ip, hw) ==
    [hostname |-> NameSwitch, ipaddress |-> ip, hwaddress |-> hw,
     subnetid |-> 1921682250, optiondata |-> <<>>]

(* WithAuth(user, pass), and no auth option *)
WithAuth(user, pass) == [set |-> TRUE, username |-> user, password |-> pass]

NoAuthOption == [set |-> FALSE, username |-> "", password |-> ""]

AuthOptions ==
    {NoAuthOption}
      \cup {WithAuth(u, p) : u \in {"", "opt-user"}, p \in {"", "opt-pass"}}

(* KEA_USERNAME and KEA_PASSWORD; os.Getenv gives "" for an unset variable *)
Environments ==
    { [KEA_USERNAME |-> u, KEA_PASSWORD |-> p] :
        u \in {"", "env-user"}, p \in {"", "env-pass"} }

NoClient == [remote |-> "", username |-> "", password |-> ""]

NoBuild == [fatal |-> FALSE, built |-> FALSE, diags |-> <<>>, client |-> NoClient]

(* a plausible slip: an incomplete auth option falls back to the           *)
(* environment                                                             *)
processOptions_EnvFallback(o, env) ==
    With(IF o.set /\ o.username # "" /\ o.password # ""
         THEN [username |-> o.username, password |-> o.password]
         ELSE [username |-> env.KEA_USERNAME, password |-> env.KEA_PASSWORD],
         LAMBDA auth :
        IF auth.username = "" \/ auth.password = ""
        THEN [NoBuild EXCEPT !.fatal = TRUE]
        ELSE [NoBuild EXCEPT !.built = TRUE,
                             !.client = [remote |-> "postgresql",
                                         username |-> auth.username,
                                         password |-> auth.password]])

(* Client.processOptions: the credentials are the option's when WithAuth   *)
(* was given and the environment's otherwise; logrus.Fatalf ends the       *)
(* process when one of the two is empty                                    *)
processOptions(o, env) ==
    With(IF o.set
         THEN [username |-> o.username, password |-> o.password]
         ELSE [username |-> env.KEA_USERNAME, password |-> env.KEA_PASSWORD],
         LAMBDA auth :
        IF auth.username = "" \/ auth.password = ""
        THEN [NoBuild EXCEPT !.fatal = TRUE]
        ELSE [NoBuild EXCEPT !.built = TRUE,
                             !.client = [remote |-> "postgresql",
                                         username |-> auth.username,
                                         password |-> auth.password]])

(* kea.New *)
New(o, env) == processOptions(o, env)

(* types.String.ValueString(): "" for null and unknown *)
ValueString(x) == IF x.st = "known" THEN x.v ELSE ""

(* the provider block: each attribute absent, unknown, empty or set *)
ProviderAttr(v) ==
    { [st |-> "null", v |-> ""], [st |-> "unknown", v |-> ""],
      [st |-> "known", v |-> ""], [st |-> "known", v |-> v] }

ProviderConfigs ==
    { [username |-> u, password |-> p] :
        u \in ProviderAttr("cfg-user"), p \in ProviderAttr("cfg-pass") }

(* KeaCBProvider.Configure: the environment's value is taken first and the *)
(* configuration's only when the environment's is empty; one diagnostic    *)
(* for each value still empty, and kea.New(kea.WithAuth(...)) otherwise    *)
Configure(config, env) ==
    With([username |-> IF env.KEA_USERNAME = "" THEN ValueString(config.username)
                       ELSE env.KEA_USERNAME,
          password |-> IF env.KEA_PASSWORD = "" THEN ValueString(config.password)
                       ELSE env.KEA_PASSWORD],
         LAMBDA cred :
        IF cred.username = "" \/ cred.password = ""
        THEN [NoBuild EXCEPT
                !.diags = (IF cred.username = ""
                           THEN <<"Missing Kea DHCP API Username">> ELSE <<>>)
                            \o (IF cred.password = ""
                                THEN <<"Missing Kea DHCP API Password">> ELSE <<>>)]
        ELSE New(WithAuth(cred.username, cred.password), env))

(* the state ImportState starts from: every attribute of the schema null *)
EmptyState(resource) ==
    CASE resource = "subnet" ->
            [hostname |-> StrNull, id |-> IntNull, subnet |-> StrNull, pools |-> <<>>,
             relay |-> <<>>, option_data |-> <<>>]
      [] resource = "optdef" ->
            [hostname |-> StrNull, name |-> StrNull, code |-> IntNull, type |-> StrNull,
             array |-> "null", record_types |-> StrNull, space |-> StrNull,
             encapsulate |-> StrNull]
      [] OTHER ->
            [subnet_id |-> IntNull, hostname |-> StrNull,
             reservation_hostname |-> StrNull, ip_address |-> StrNull,
             hw_address |-> StrNull]

(* the attribute each ImportState hands to ImportStatePassthroughID *)
ImportPath(resource) ==
    CASE resource = "subnet" -> "subnet"
      [] resource = "optdef" -> "code"
      [] OTHER -> "subnet"

(* import identifiers: a prefix, an option code and an IP address *)
ImportIDs ==
    { <<"1", "9", "2", ".", "1", "6", "8", ".", "2", "2", "5", ".", "0", "/", "2", "4">>,
      <<"2", "2", "2">>,
      <<"1", "9", "2", ".", "1", "6", "8", ".", "1", ".", "5">> }

(* resource.ImportStatePassthroughID: State.SetAttribute(attrPath, req.ID) *)
(* on the empty state.  A path the schema does not have is an error; a     *)
(* string attribute takes the identifier; what the framework makes of a    *)
(* string written to a number attribute is not in src/, so conv is either  *)
(* outcome: an error, or the number the identifier spells                  *)
ImportStatePassthroughID(state, attr, id, conv) ==
    IF attr \notin DOMAIN state
    THEN [diags |-> <<"State Write Error">>, wrote |-> FALSE, out |-> state]
    ELSE IF "v" \in DOMAIN state[attr]
    THEN [diags |-> <<>>, wrote |-> TRUE, out |-> [state EXCEPT ![attr] = Str(id)]]
    ELSE IF conv = "number" /\ Atoi(id).ok
    THEN [diags |-> <<>>, wrote |-> TRUE,
          out |-> [state EXCEPT ![attr] = IntV(Atoi(id).val)]]
    ELSE [diags |-> <<"Value Conversion Error">>, wrote |-> FALSE, out |-> state]

(* the ImportState of the three resources *)
ImportState(resource, id, conv) ==
    ImportStatePassthroughID(EmptyState(resource), ImportPath(resource), id, conv)

NoImport == [diags |-> <<>>, wrote |-> FALSE, out |-> NoOut]

(* subnet texts a configuration may hold: no prefix length, too few        *)
(* octets, a sign, an octet above 255, a prefix length above 32, and two   *)
(* networks                                                                *)
CallSubnets ==
    { <<"1", "2">>,
      <<"1", ".", "2", "/", "8">>,
      <<"-", "5", "/", "2", "4">>,
      <<"1", "9", "2", ".", "1", "6", "8", ".", "2", "2", "5", ".", "0">>,
      <<"1", "9", "2", ".", "1", "6", "8", ".", "2", "2", "5", ".", "0", "/", "2", "4">>,
      <<"1", "0", ".", "0", ".", "0", ".", "0", "/", "8">>,
      <<"9", "9", "9", ".", "1", ".", "1", ".", "1", "/", "2", "4">>,
      <<"1", ".", "2", ".", "3", ".", "4", "/", "3", "3">> }

(* the configuration of a subnet resource with that subnet text *)
CallSubnetConfig(subnet) ==
    [hostname |-> Str(HostKea), id |-> IntNull, subnet |-> Str(subnet),
     pools |-> <<>>, relay |-> <<>>, option_data |-> <<>>]

NoCall == Ret(<<>>, NilErr, NoOut)

NoMake == [err |-> NilErr, req |-> NoRequest]

InitCalls ==
    /\ client = [remote |-> "postgresql", username |-> "kea-user",
                 password |-> "kea-pass"]
    /\ tf = NoState
    /\ last = Idle
    /\ sent = <<>>
    /\ server = NoStore
    /\ callers = NoCallers
    /\ pure \in
         { [fn |-> "ReservationAdd", done |-> FALSE, ip |-> ip, hw |-> hw,
            hw2 |-> hw2, srv |-> srv, r |-> NoCall, r2 |-> NoCall,
            again |-> NoCall] :
              ip \in CallIPs, hw \in CallMACs, hw2 \in CallMACs,
              srv \in CallAnswers }
           \cup { [fn |-> "ReservationDel", done |-> FALSE, ip |-> ip,
                   srv |-> srv, r |-> NoCall] :
                     ip \in CallIPs, srv \in CallAnswers }
           \cup { [fn |-> "make", done |-> FALSE, url |-> u, m |-> NoMake,
                   again |-> NoMake] : u \in CallURLs }
           \cup { [fn |-> "New", done |-> FALSE, opt |-> o, env |-> e,
                   r |-> NoBuild] : o \in AuthOptions, e \in Environments }
           \cup { [fn |-> "Configure", done |-> FALSE, config |-> c, env |-> e,
                   r |-> NoBuild] : c \in ProviderConfigs, e \in Environments }
           \cup { [fn |-> "Subnet_Write", done |-> FALSE, op |-> o, subnet |-> sn,
                   srv |-> srv, r |-> Rejected(<<>>)] :
                     o \in SubnetWriteOps, sn \in CallSubnets, srv \in CallAnswers }
           \cup { [fn |-> "ImportState", done |-> FALSE, resource |-> k, id |-> i,
                   conv |-> v, r |-> NoImport] :
                     k \in {"subnet", "optdef", "reservation"}, i \in ImportIDs,
                     v \in {"error", "number"} }

(* ReservationAdd(hostname, res) for hw and for hw2, and once more with    *)
(* the hardware address the first call sent                                *)
Call_ReservationAdd ==
    /\ pure.fn = "ReservationAdd"
    /\ ~ pure.done
    /\ pure' = [pure EXCEPT
                  !.done = TRUE,
                  !.r = ReservationAdd(client, HostKea,
                                       CallReservation(pure.ip, pure.hw), pure.srv),
                  !.r2 = ReservationAdd(client, HostKea,
                                        CallReservation(pure.ip, pure.hw2), pure.srv),
                  !.again =
                     With(ReservationAdd(client, HostKea,
                                         CallReservation(pure.ip, pure.hw), pure.srv),
                          LAMBDA first :
                        IF first.sent = <<>> THEN first
                        ELSE ReservationAdd(client, HostKea,
                               first.sent[1].body.arguments.reservation, pure.srv))]
    /\ UNCHANGED <<client, tf, last, sent, server, callers>>

Call_ReservationDel ==
    /\ pure.fn = "ReservationDel"
    /\ ~ pure.done
    /\ pure' = [pure EXCEPT
                  !.done = TRUE,
                  !.r = ReservationDel(client, HostKea, pure.ip, 1921682250, pure.srv)]
    /\ UNCHANGED <<client, tf, last, sent, server, callers>>

(* make(method, url, body, nil), and once more on the URL it built *)
Call_make ==
    /\ pure.fn = "make"
    /\ ~ pure.done
    /\ pure' = [pure EXCEPT
                  !.done = TRUE,
                  !.m = make(client, "POST", pure.url, Request("list-commands", <<>>)),
                  !.again =
                     With(make(client, "POST", pure.url, Request("list-commands", <<>>)),
                          LAMBDA first :
                        IF ~ first.err.nil THEN first
                        ELSE make(client, "POST", first.req.url,
                                  Request("list-commands", <<>>)))]
    /\ UNCHANGED <<client, tf, last, sent, server, callers>>

(* kea.New(opts...): the client exists when the process was not ended *)
Call_New ==
    /\ pure.fn = "New"
    /\ ~ pure.done
    /\ pure' = [pure EXCEPT !.done = TRUE, !.r = New(pure.opt, pure.env)]
    /\ client' = IF New(pure.opt, pure.env).built
                 THEN New(pure.opt, pure.env).client ELSE NoClient
    /\ UNCHANGED <<tf, last, sent, server, callers>>

(* KeaCBProvider.Configure: resp.ResourceData is the client it built *)
Call_Configure ==
    /\ pure.fn = "Configure"
    /\ ~ pure.done
    /\ pure' = [pure EXCEPT !.done = TRUE, !.r = Configure(pure.config, pure.env)]
    /\ client' = IF Configure(pure.config, pure.env).built
                 THEN Configure(pure.config, pure.env).client ELSE NoClient
    /\ UNCHANGED <<tf, last, sent, server, callers>>

(* Create or Update of a subnet resource with the subnet text *)
Call_Subnet_Write ==
    /\ pure.fn = "Subnet_Write"
    /\ ~ pure.done
    /\ pure' = [pure EXCEPT
                  !.done = TRUE,
                  !.r = Subnet_Write(pure.op, CallSubnetConfig(pure.subnet), pure.srv)]
    /\ UNCHANGED <<client, tf, last, sent, server, callers>>

(* ImportState of one resource: the framework keeps the state it wrote *)
Call_ImportState ==
    /\ pure.fn = "ImportState"
    /\ ~ pure.done
    /\ pure' = [pure EXCEPT !.done = TRUE,
                            !.r = ImportState(pure.resource, pure.id, pure.conv)]
    /\ tf' = IF ImportState(pure.resource, pure.id, pure.conv).wrote
             THEN [kind |-> pure.resource,
                   data |-> ImportState(pure.resource, pure.id, pure.conv).out]
             ELSE tf
    /\ UNCHANGED <<client, last, sent, server, callers>>

NextCalls ==
    \/ Call_ReservationAdd
    \/ Call_ReservationDel
    \/ Call_make
    \/ Call_New
    \/ Call_Configure
    \/ Call_Subnet_Write
    \/ Call_ImportState

SpecCalls == InitCalls /\ [][NextCalls]_vars

---------------------------------------------------------------------------
(* Two handlers at once: two Terraform runs, each with its own recorded    *)
(* state, create or update the same subnet through the same server.  A     *)
(* handler runs up to its request, the server handles the requests in the  *)
(* order they arrive, and each handler goes on with the answer to its own  *)

(* the configurations of the one subnet the callers write *)
RaceConfigs == {c \in ValidSubnetConfigs : c.subnet = Str(CIDR(<<192, 168, 225, 0>>, 24))}

InitRace ==
    /\ client = [remote |-> "postgresql", username |-> "kea-user",
                 password |-> "kea-pass"]
    /\ tf = NoState
    /\ last = Idle
    /\ sent = <<>>
    /\ server = NoStore
    /\ pure = NoPure
    /\ callers \in [1..2 -> { [pc |-> "start", op |-> op, config |-> c,
                               req |-> NoRequest, nth |-> 0, srv |-> NoChoice,
                               r |-> Rejected(<<>>)] :
                                 op \in SubnetWriteOps, c \in RaceConfigs }]

(* the handler of caller p runs to c.client.Do: the request is on the wire *)
Caller_Send ==
    \E p \in 1..2 :
       /\ callers[p].pc = "start"
       /\ callers' = [callers EXCEPT
                        ![p].pc = "sent",
                        ![p].req = Subnet_Write(callers[p].op, callers[p].config,
                                               NoChoice).sent[1]]
       /\ UNCHANGED <<client, tf, last, sent, pure, server>>

(* the request of caller p arrives: the server handles it as it handles    *)
(* any set and answers; nth is the place of the request in the order of    *)
(* arrival                                                                 *)
Server_Handle ==
    \E p \in 1..2 :
       /\ callers[p].pc = "sent"
       /\ \E srv \in Honest(server, callers[p].req.body) :
             callers' = [callers EXCEPT
                           ![p].pc = "answered",
                           ![p].srv = srv,
                           ![p].nth = 1 + Cardinality({q \in 1..2 : callers[q].nth > 0})]
       /\ server' = Applied(server, callers[p].req.body)
       /\ UNCHANGED <<client, tf, last, sent, pure>>

(* the handler of caller p goes on with the answer and ends *)
Caller_Return ==
    \E p \in 1..2 :
       /\ callers[p].pc = "answered"
       /\ callers' = [callers EXCEPT
                        ![p].pc = "done",
                        ![p].r = Subnet_Write(callers[p].op, callers[p].config,
                                             callers[p].srv)]
       /\ UNCHANGED <<client, tf, last, sent, pure, server>>

NextRace ==
    \/ Caller_Send
    \/ Server_Handle
    \/ Caller_Return

SpecRace == InitRace /\ [][NextRace]_vars

---------------------------------------------------------------------------
(* Properties *)

ReadOps == {"subnet.Read", "datasource.Read", "optdef.Read"}

DeleteOps == {"subnet.Delete", "optdef.Delete", "reservation.Delete"}

WriteOps == {"subnet.Create", "subnet.Update", "optdef.Create", "optdef.Update",
             "reservation.Create", "reservation.Update"}

(* the call in progress was answered with a response of the given result *)
AnsweredWith(op, results) ==
    op.choice.kind = "reply" /\ op.choice.result \in results

(* the factor that shifts a number left by the decimal digits of an octet *)
Shift(octet) == IF octet < 10 THEN 10 ELSE IF octet < 100 THEN 100 ELSE 1000

(* the integer whose decimal digits are those of the four octets in a row *)
ConcatOctets(o) ==
    ((o[1] * Shift(o[2]) + o[2]) * Shift(o[3]) + o[3]) * Shift(o[4]) + o[4]

(* C1: a read (subnet resource Read, subnet data-source Read,              *)
(* RemoteOptionDef4Get) answered with result 3, whatever the text, reports *)
(* no error and returns an empty entity.                                   *)
C1_Result3IsBenignAbsence ==
    (last.op \in ReadOps /\ AnsweredWith(last, {3}))
      => /\ last.op \in {"subnet.Read", "datasource.Read"}
              => last.diags = <<>> /\ last.ent = ZeroSubnet
         /\ last.op = "optdef.Read" => last.err.nil /\ last.ent = NilOptDef

(* C2: a Delete of a reservation, a subnet or an option definition whose   *)
(* delete command is answered with result 3 reports no error.              *)
C2_DeleteOfAbsentIsNoError ==
    (last.op \in DeleteOps /\ AnsweredWith(last, {3})) => last.diags = <<>>

(* the cases of C3 for body b, decode target v and the result r of do;     *)
(* undecodable says when the body counts as no usable array                *)
C3_Cases(undecodable, b, v, r) ==
    LET nonzero == ~ undecodable /\ b.elems[1].result # 0
        zero    == ~ undecodable /\ b.elems[1].result = 0
    IN /\ (~ r.err.nil) <=>
            \/ undecodable
            \/ nonzero
            \/ zero /\ v \notin {"nil", "any"} /\ b.elems[1].arguments.kind = "scalar"
       /\ nonzero => /\ Contains(r.err.msg, Itoa(b.elems[1].result))
                     /\ Contains(r.err.msg, b.elems[1].text)
       /\ (zero /\ (\/ v = "nil"
                    \/ b.elems[1].arguments.kind = "absent"
                    \/ /\ v # "any"
                       /\ b.elems[1].arguments = [kind |-> "object", obj |-> ZeroArgs]))
            => r.err.nil /\ r.val = ZeroArgs

(* C3 as stated: do returns an error exactly when the body is no JSON      *)
(* array or an empty one, or the first result is non-zero (the error then  *)
(* holds the code and the text), or the result is 0 and a non-empty        *)
(* arguments body does not fit the target; absent or empty arguments, or   *)
(* no target, give no error and a zero target.                             *)
C3_ErrorExactlyWhen ==
    (pure.done /\ pure.outcome.kind = "response")
      => C3_Cases(pure.outcome.body.kind = "malformed"
                    \/ Len(pure.outcome.body.elems) = 0,
                  pure.outcome.body, pure.v, pure.r)

(* C3 amended: the same, where the first case is a body that does not      *)
(* decode as a JSON array of response objects, every element counted, or   *)
(* an empty array.                                                         *)
C3_ErrorExactlyWhenDecodable ==
    (pure.done /\ pure.outcome.kind = "response")
      => C3_Cases(pure.outcome.body.kind = "malformed"
                    \/ Len(pure.outcome.body.elems) = 0
                    \/ \E i \in 1..Len(pure.outcome.body.elems) :
                          ~ pure.outcome.body.elems[i].wf,
                  pure.outcome.body, pure.v, pure.r)

C3_Witness ==
    /\ pure.done
    /\ pure.outcome.kind = "response"
    /\ Len(pure.outcome.body.elems) = 2
    /\ pure.outcome.body.elems[1].wf
    /\ pure.outcome.body.elems[1].result = 0
    /\ ~ pure.outcome.body.elems[2].wf
    /\ ~ pure.r.err.nil

(* C4: a read answered with result 1, 2 or 4, whatever the text, reports   *)
(* an error and is never taken for benign absence.                         *)
C4_OtherResultsAreErrors ==
    (last.op \in ReadOps /\ AnsweredWith(last, {1, 2, 4}))
      => /\ last.diags # <<>>
         /\ ~ last.wrote
         /\ last.op = "optdef.Read" => ~ last.err.nil

(* C5: a Create or Update of any kind whose set or add command is answered *)
(* with a non-zero result reports an error and leaves the recorded state   *)
(* as it was.                                                              *)
C5_WriteErrorsEscalate ==
    [][(last'.op \in WriteOps /\ AnsweredWith(last', {1, 2, 3, 4}))
          => (last'.diags # <<>> /\ tf' = tf)]_vars

C5_Witness ==
    /\ last.op = "reservation.Create"
    /\ AnsweredWith(last, {3})
    /\ Contains(last.choice.text, NotFoundMarker)
    /\ last.diags = <<"ReservationAdd">>
    /\ tf = NoState

(* C6: a subnet Create of a valid configuration issues exactly one         *)
(* remote-subnet4-set whose subnets hold exactly one object with the       *)
(* derived id, the configured prefix and the configured pools, relay and   *)
(* option-data in order and unchanged; 192.168.225.0/24 is sent with id    *)
(* 1921682250.                                                             *)
C6_CreateSendsOneSet ==
    (/\ last.op = "subnet.Create"
     /\ last.input.hostname = Str(HostKea)
     /\ \E o \in Nets : last.input.subnet = Str(CIDR(o, 24)))
      => /\ Len(sent) = 1
         /\ sent[1].body.command = "remote-subnet4-set"
         /\ Len(sent[1].body.arguments.subnets) = 1
         /\ \E sn \in {sent[1].body.arguments.subnets[1]} :
               /\ sn.subnet = last.input.subnet.v
               /\ sn.pools = last.input.pools
               /\ sn.relay = last.input.relay
               /\ Len(sn.optiondata) = Len(last.input.option_data)
               /\ \A i \in 1..Len(sn.optiondata) :
                     /\ sn.optiondata[i].code = last.input.option_data[i].code
                     /\ sn.optiondata[i].name = last.input.option_data[i].name
                     /\ sn.optiondata[i].data = last.input.option_data[i].data
                     /\ sn.optiondata[i].always_send
                          = (last.input.option_data[i].always_send = "true")
               /\ \E o \in Nets : /\ sn.subnet = CIDR(o, 24)
                                  /\ sn.id = ConcatOctets(o)
               /\ sn.subnet = CIDR(<<192, 168, 225, 0>>, 24) => sn.id = 1921682250

C6_Witness ==
    /\ last.op = "subnet.Create"
    /\ last.input.hostname = Str(HostKea)
    /\ last.input.subnet = Str(CIDR(<<192, 168, 225, 0>>, 24))
    /\ Len(last.input.option_data) = 3
    /\ Len(sent) = 1
    /\ last.wrote
    /\ tf.data.id = IntV(1921682250)

(* C7: the id derived from a valid IPv4 prefix is the integer whose digits *)
(* are the decimal octets of its address, the part written before the      *)
(* slash, in a row, the prefix length dropped, and the same prefix gives   *)
(* the same id.                                                            *)
C7_IDIsOctetConcatenation ==
    pure.done
      => /\ pure.ra.ok /\ pure.ra.val = ConcatOctets(pure.a.o)
         /\ pure.rb.ok /\ pure.rb.val = ConcatOctets(pure.b.o)
         /\ pure.a = pure.b => pure.ra = pure.rb

C7_Witness ==
    /\ pure.done
    /\ pure.a = [o |-> <<192, 168, 225, 0>>, n |-> 24]
    /\ pure.b = [o |-> <<10, 0, 0, 0>>, n |-> 8]
    /\ pure.ra.val = 1921682250
    /\ pure.rb.val = 10000

(* C8: every remote-subnet4-set, from the resource or from a caller of the *)
(* client, carries for each subnet the id derived from its prefix.         *)
C8_SetCarriesDerivedID ==
    \A i \in 1..Len(sent) :
       sent[i].body.command = "remote-subnet4-set"
         => \A j \in 1..Len(sent[i].body.arguments.subnets) :
               /\ DeriveID(sent[i].body.arguments.subnets[j].subnet).ok
               /\ sent[i].body.arguments.subnets[j].id
                    = DeriveID(sent[i].body.arguments.subnets[j].subnet).val

(* C9: a subnet Create or Update whose prefix does not reduce to an        *)
(* integer, or whose subnet or hostname is missing or empty, reports an    *)
(* error, sends no command and leaves the recorded state as it was.        *)
C9_InvalidSubnetRejected ==
    [][(/\ last'.op \in {"subnet.Create", "subnet.Update"}
        /\ \/ IsMissing(last'.input.hostname)
           \/ last'.input.subnet \notin {Str(CIDR(o, 24)) : o \in Nets})
          => (last'.diags # <<>> /\ sent' = <<>> /\ tf' = tf)]_vars

C9_Witness ==
    /\ last.op = "subnet.Update"
    /\ last.input.hostname = Str(HostKea)
    /\ last.input.subnet = Str(<<"a", "b", "c", "/", "2", "4">>)
    /\ last.diags = <<"RemoteSubnet4Create">>
    /\ sent = <<>>
    /\ tf.kind = "subnet"

(* C10: two distinct /24 networks (last octet 0) have distinct ids. *)
C10_DistinctNetworksDistinctIDs ==
    (/\ pure.done
     /\ pure.a.n = 24 /\ pure.b.n = 24
     /\ pure.a.o[4] = 0 /\ pure.b.o[4] = 0
     /\ pure.a # pure.b)
      => pure.ra.val # pure.rb.val

(* the call in progress is a subnet Create or Update whose set command the *)
(* server answered with result 0                                           *)
SetSucceeded(op, reqs) ==
    /\ op.op \in {"subnet.Create", "subnet.Update"}
    /\ AnsweredWith(op, {0})
    /\ Len(reqs) = 1

(* C11: after a successful subnet Create or Update the recorded id and     *)
(* subnet are the ones of the server's reply, also when the id differs     *)
(* from the derived one; a success reply that does not hold exactly one    *)
(* subnet is reported as an error and the recorded state stays as it was.  *)
C11_ServerValuesRecorded ==
    [][SetSucceeded(last', sent')
          => IF last'.choice.args.kind = "object" /\ Len(last'.choice.args.items) = 1
             THEN /\ last'.diags = <<>>
                  /\ tf'.kind = "subnet"
                  /\ tf'.data.id
                       = IntV(ReplyItem(last'.choice.args.items[1], sent'[1].body).id)
                  /\ tf'.data.subnet
                       = Str(ReplyItem(last'.choice.args.items[1], sent'[1].body).subnet)
             ELSE last'.diags # <<>> /\ tf' = tf]_vars

C11_Witness ==
    /\ SetSucceeded(last, sent)
    /\ last.op = "subnet.Update"
    /\ last.choice.args.items = <<"other">>
    /\ sent[1].body.arguments.subnets[1].id = 1921682250
    /\ tf.data.id = IntV(7)
    /\ tf.data.subnet = Str(CIDR(<<192, 168, 225, 0>>, 24))


(* C12: for every subnet or option-definition configuration, Update puts   *)
(* on the wire the very requests Create puts there for that configuration: *)
(* the same command with the same, whole, arguments.                       *)
C12_UpdateSendsWhatCreateSends ==
    /\ last.op = "subnet.Update"
         => sent = Subnet_Create(client, last.input, last.choice).sent
    /\ last.op = "optdef.Update"
         => sent = OptDef_Create(client, last.input, last.choice).sent

C12_Witness ==
    /\ last.op = "optdef.Update"
    /\ Len(sent) = 1
    /\ sent[1].body.command = "remote-option-def4-set"
    /\ sent[1].body.arguments.optiondefs
         = << [ZeroOptDef EXCEPT !.name = NameMyOption, !.code = 222,
                                 !.type = TypeString, !.space = SpaceDhcp4] >>


(* C13: against a server whose set commands are upserts, an Update with    *)
(* the configuration that was applied before (by Create or by Update: the  *)
(* recorded state is that configuration with the server's id, the backend  *)
(* stores its entity) leaves the backend and the recorded state as they    *)
(* were.                                                                   *)
C13_SecondApplicationChangesNothing ==
    [][(\/ /\ last'.op = "subnet.Update"
           /\ tf.kind = "subnet"
           /\ tf.data = [last'.input EXCEPT
                           !.id = IntV(DeriveID(last'.input.subnet.v).val)]
           /\ NewRemoteSubnet4(last'.input, DeriveID(last'.input.subnet.v).val)
                \in server.subnets
        \/ /\ last'.op = "optdef.Update"
           /\ tf = [kind |-> "optdef", data |-> last'.input]
           /\ NewRemoteOptionDef4(last'.input) \in server.optdefs)
          => (server' = server /\ tf' = tf /\ last'.diags = <<>>)]_vars

C13_Witness ==
    /\ last.op = "subnet.Update"
    /\ last.diags = <<>>
    /\ last.input.option_data = TestPayload.option_data
    /\ tf.data = [last.input EXCEPT !.id = IntV(1921682250)]
    /\ server.subnets = {NewRemoteSubnet4(last.input, 1921682250)}
    /\ sent = Subnet_Create(client, last.input, last.choice).sent

(* C14: for one managed subnet against a server that honours set and       *)
(* delete, a Read of a subnet the backend stores reports no error and      *)
(* records the id and prefix stored; a Read of a prefix the backend does   *)
(* not store (after a Delete) reports no error and returns the empty       *)
(* subnet; and a Create or Update makes the subnet stored and recorded.    *)
C14_LifecycleObserved ==
    /\ (last.op = "subnet.Read" /\ Len(sent) = 1)
          => \A s \in server.subnets :
                s.subnet = sent[1].body.arguments.subnets[1].subnet
                  => /\ last.diags = <<>>
                     /\ tf.data.id = IntV(s.id)
                     /\ tf.data.subnet = Str(s.subnet)
    /\ (/\ last.op \in {"subnet.Read", "datasource.Read"}
        /\ Len(sent) = 1
        /\ \A s \in server.subnets :
              s.subnet # sent[1].body.arguments.subnets[1].subnet)
          => last.diags = <<>> /\ ~ last.fault /\ last.ent = ZeroSubnet
    /\ last.op \in {"subnet.Create", "subnet.Update"}
          => /\ last.diags = <<>>
             /\ tf.kind = "subnet"
             /\ \E s \in server.subnets :
                   s.subnet = last.input.subnet.v /\ tf.data.id = IntV(s.id)


(* the texts the reservation claims name *)
IPHost == <<"1", "9", "2", ".", "1", "6", "8", ".", "1", ".", "5">>

IPOctet999 == <<"9", "9", "9", ".", "1", ".", "1", ".", "1">>

MACUpper == <<"B", "8", ":", "2", "7", ":", "E", "B", ":", "9", "C", ":", "A", "E", ":", "B", "7">>

MACLower == <<"b", "8", ":", "2", "7", ":", "e", "b", ":", "9", "c", ":", "a", "e", ":", "b", "7">>

MACNone == <<"n", "o", "t", "-", "a", "-", "m", "a", "c">>

(* C15: ReservationAdd returns the invalid-IP error for "999.1.1.1" and    *)
(* for "", and the invalid-MAC error for "not-a-mac" and for "" when the   *)
(* IP address parses; ReservationDel, which takes no hardware address,     *)
(* returns the invalid-IP error for the same IP texts; a call that returns *)
(* one of the two errors has sent no request; and "192.168.1.5" is         *)
(* accepted: the call sends its one request.                               *)
C15_InvalidAddressesRejected ==
    (pure.fn \in {"ReservationAdd", "ReservationDel"} /\ pure.done)
      => /\ pure.ip \in {IPOctet999, <<>>}
              => pure.r.err = Err(ErrInvalidIP) /\ pure.r.sent = <<>>
         /\ (pure.fn = "ReservationAdd" /\ pure.ip = IPHost /\ pure.hw \in {MACNone, <<>>})
              => pure.r.err = Err(ErrInvalidMAC) /\ pure.r.sent = <<>>
         /\ pure.r.err \in {Err(ErrInvalidIP), Err(ErrInvalidMAC)}
              => pure.r.sent = <<>>
         /\ (pure.ip = IPHost /\ (pure.fn = "ReservationAdd" => pure.hw = MACLower))
              => /\ Len(pure.r.sent) = 1
                 /\ pure.r.err \notin {Err(ErrInvalidIP), Err(ErrInvalidMAC)}

C15_Witness ==
    /\ pure.fn = "ReservationDel"
    /\ pure.done
    /\ pure.ip = IPOctet999
    /\ pure.r.err = Err(ErrInvalidIP)
    /\ pure.r.sent = <<>>

(* the letters A to F in lower case; every other character as it is *)
Lower(ch) ==
    IF \E i \in 1..16 : UpperHex[i] = ch
    THEN HexDigits[CHOOSE i \in 1..16 : UpperHex[i] = ch]
    ELSE ch

SameButCase(a, b) == Len(a) = Len(b) /\ \A i \in 1..Len(a) : Lower(a[i]) = Lower(b[i])

(* pairs of lowercase hex digits with a colon between them *)
IsCanonicalHw(h) ==
    /\ Len(h) % 3 = 2
    /\ \A i \in 1..Len(h) :
          IF i % 3 = 0 THEN h[i] = ":"
          ELSE \E k \in 1..16 : HexDigits[k] = h[i]

SentHw(r) == r.sent[1].body.arguments.reservation.hwaddress

(* C16: the hw-address in the reservation-add command is the lowercase     *)
(* colon-separated form; an input that differs from an accepted one only   *)
(* in letter case is accepted too and sends the same value; and a call     *)
(* with the value that was sent sends that value again.                    *)
C16_HwAddressCanonical ==
    (pure.fn = "ReservationAdd" /\ pure.done /\ pure.r.sent # <<>>)
      => /\ pure.r.sent[1].body.command = "reservation-add"
         /\ IsCanonicalHw(SentHw(pure.r))
         /\ SameButCase(pure.hw, pure.hw2)
              => pure.r2.sent # <<>> /\ SentHw(pure.r2) = SentHw(pure.r)
         /\ pure.again.sent # <<>>
         /\ SentHw(pure.again) = SentHw(pure.r)

C16_Witness ==
    /\ pure.fn = "ReservationAdd"
    /\ pure.done
    /\ pure.hw = MACUpper
    /\ pure.hw2 = MACLower
    /\ Len(pure.r.sent) = 1
    /\ SentHw(pure.r) = MACLower
    /\ SentHw(pure.r2) = MACLower

(* C17: ReservationAdd and ReservationDel send a request only when the     *)
(* ip-address is a syntactically valid IPv4 address (four decimal fields   *)
(* of at most 255 with dots between them).                                 *)
C17_OnlyIPv4Accepted ==
    (pure.fn \in {"ReservationAdd", "ReservationDel"} /\ pure.done /\ pure.r.sent # <<>>)
      => ParseIPv4(pure.ip)

(* the hostname names a scheme *)
HasScheme(url) == Contains(url, <<":", "/", "/">>)

(* the number of places where "://" stands in url *)
SchemeMarks(url) ==
    Cardinality({i \in 1..Len(url) : HasPrefix(SubSeq(url, i, Len(url)), <<":", "/", "/">>)})

(* C18: the URL of the request is the hostname with "https://" put in      *)
(* front exactly when the hostname names no scheme and "/" put behind      *)
(* exactly when it does not end in one; it names one scheme and ends with  *)
(* a slash; and make leaves the URL it built as it is.                     *)
C18_URLCoercion ==
    (pure.fn = "make" /\ pure.done /\ pure.m.err.nil)
      => /\ pure.m.req.url
              = (IF HasScheme(pure.url) THEN <<>> ELSE SchemeHTTPS)
                  \o pure.url
                  \o (IF HasSuffix(pure.url, <<"/">>) THEN <<>> ELSE <<"/">>)
         /\ SchemeMarks(pure.m.req.url) = 1
         /\ HasSuffix(pure.m.req.url, <<"/">>)
         /\ pure.again.req.url = pure.m.req.url

OptionYieldsBoth(o) == o.set /\ o.username # "" /\ o.password # ""

EnvYieldsBoth(e) == e.KEA_USERNAME # "" /\ e.KEA_PASSWORD # ""

(* C19 as stated: kea.New builds the client with the option's credentials  *)
(* when the option yields both, with the environment's when only the       *)
(* environment yields both, and ends the process exactly when neither      *)
(* yields both.                                                            *)
C19_EitherSourceSuffices ==
    (pure.fn = "New" /\ pure.done)
      => /\ OptionYieldsBoth(pure.opt)
              => /\ pure.r.built
                 /\ client.username = pure.opt.username
                 /\ client.password = pure.opt.password
         /\ (~ OptionYieldsBoth(pure.opt) /\ EnvYieldsBoth(pure.env))
              => /\ pure.r.built
                 /\ client.username = pure.env.KEA_USERNAME
                 /\ client.password = pure.env.KEA_PASSWORD
         /\ pure.r.fatal <=> (~ OptionYieldsBoth(pure.opt) /\ ~ EnvYieldsBoth(pure.env))

(* C19: an auth option that was given is the only source: kea.New builds   *)
(* the client with the option's credentials when both are non-empty and    *)
(* ends the process otherwise, whatever the environment holds; without an  *)
(* auth option it builds the client with KEA_USERNAME and KEA_PASSWORD     *)
(* when both are non-empty and ends the process otherwise.  So the process *)
(* is ended whenever neither source yields both.                           *)
C19_OptionShadowsEnvironment ==
    (pure.fn = "New" /\ pure.done)
      => /\ pure.r.fatal <=> ~ pure.r.built
         /\ pure.opt.set
              => /\ pure.r.built <=> OptionYieldsBoth(pure.opt)
                 /\ pure.r.built => /\ client.username = pure.opt.username
                                    /\ client.password = pure.opt.password
         /\ ~ pure.opt.set
              => /\ pure.r.built <=> EnvYieldsBoth(pure.env)
                 /\ pure.r.built => /\ client.username = pure.env.KEA_USERNAME
                                    /\ client.password = pure.env.KEA_PASSWORD
         /\ (~ OptionYieldsBoth(pure.opt) /\ ~ EnvYieldsBoth(pure.env)) => pure.r.fatal

C19_Witness ==
    /\ pure.fn = "New"
    /\ pure.done
    /\ pure.opt = WithAuth("opt-user", "")
    /\ EnvYieldsBoth(pure.env)
    /\ pure.r.fatal
    /\ client = NoClient

(* the value Configure is to use: the configuration's when it gives one,   *)
(* the environment's otherwise                                             *)
Preferred(attr, envval) == IF ValueString(attr) # "" THEN ValueString(attr) ELSE envval

(* C20: Configure builds the client with the configuration's username and  *)
(* password where the configuration gives them and with KEA_USERNAME or    *)
(* KEA_PASSWORD where it does not; when a value comes from neither, it     *)
(* reports a missing-credential diagnostic and builds no client.           *)
C20_ConfigurationFirst ==
    (pure.fn = "Configure" /\ pure.done)
      => IF /\ Preferred(pure.config.username, pure.env.KEA_USERNAME) # ""
            /\ Preferred(pure.config.password, pure.env.KEA_PASSWORD) # ""
         THEN /\ pure.r.built
              /\ pure.r.diags = <<>>
              /\ client.username = Preferred(pure.config.username, pure.env.KEA_USERNAME)
              /\ client.password = Preferred(pure.config.password, pure.env.KEA_PASSWORD)
         ELSE /\ ~ pure.r.built
              /\ pure.r.diags # <<>>
              /\ client = NoClient


(* the commands of the configuration backend, which name the backend type *)
BackendCommands ==
    {"remote-subnet4-set", "remote-subnet4-list", "remote-subnet4-get-by-prefix",
     "remote-subnet4-get-by-id", "remote-subnet4-del-by-prefix",
     "remote-option-def4-set", "remote-option-def4-get", "remote-option-def4-del"}

PassesValidation(op, input) ==
    CASE op \in {"subnet.Create", "subnet.Update"} ->
            SubnetRequired(input) = <<>> /\ DeriveID(input.subnet.v).ok
      [] op \in {"subnet.Read", "subnet.Delete"} -> SubnetRequired(input) = <<>>
      [] op = "datasource.Read" -> DataSourceInvalid(input) = <<>>
      [] op \in {"optdef.Create", "optdef.Update"} -> OptDefRequired(input) = <<>>
      [] op \in {"optdef.Read", "optdef.Delete"} -> OptDefKeyRequired(input) = <<>>
      [] op = "reservation.Create" ->
            /\ ResvRequired(input) = <<>>
            /\ ParseIP(input.ip_address.v)
            /\ ParseMAC(input.hw_address.v).ok
      [] op = "reservation.Update" -> ResvRequired(input) = <<>>
      [] op = "reservation.Delete" ->
            ResvKeyRequired(input) = <<>> /\ ParseIP(input.ip_address.v)
      [] OTHER -> TRUE

(* the hostname the operation addresses gives a URL that parses *)
Addressable(op, input) ==
    IF op = "client.RemoteSubnet4Set" THEN TRUE
    ELSE URLParses(NormalizeURL(input.hostname.v))

(* C22: an operation whose input passes validation and whose request can   *)
(* be built has sent exactly one request when it ends, whatever the        *)
(* transport or the server answered; no operation sends more than one, and *)
(* a read that follows another call sends its own.                         *)
C22_OneRequestPerOperation ==
    last.op # "none"
      => /\ Len(sent) <= 1
         /\ (PassesValidation(last.op, last.input) /\ Addressable(last.op, last.input))
              <=> Len(sent) = 1

C22_Witness ==
    /\ last.op = "subnet.Read"
    /\ tf.kind = "subnet"
    /\ tf.data.id = IntV(1921682250)
    /\ last.choice.kind = "neterr"
    /\ Len(sent) = 1
    /\ sent[1].body.command = "remote-subnet4-get-by-prefix"


(* the object caller p sent *)
SentSubnet(p) == callers[p].req.body.arguments.subnets[1]

C24_DataSourceSelector ==
    last.op = "datasource.Read"
      => /\ ((last.input.prefix.st = "null") <=> (last.input.subnet_id.st = "null"))
              => last.diags # <<>> /\ sent = <<>>
         /\ (/\ last.input.prefix.st # "null"
             /\ last.input.subnet_id.st = "null"
             /\ last.input.hostname.v # <<>>
             /\ Addressable(last.op, last.input))
              => /\ Len(sent) = 1
                 /\ sent[1].body.command = "remote-subnet4-get-by-prefix"
                 /\ sent[1].body.arguments.subnets = << [subnet |-> last.input.prefix.v] >>
         /\ (/\ last.input.prefix.st = "null"
             /\ last.input.subnet_id.st # "null"
             /\ last.input.hostname.v # <<>>
             /\ Addressable(last.op, last.input))
              => /\ Len(sent) = 1
                 /\ sent[1].body.command = "remote-subnet4-get-by-id"
                 /\ sent[1].body.arguments.subnets = << [id |-> last.input.subnet_id.n] >>

C24_Witness ==
    /\ last.op = "datasource.Read"
    /\ last.input.prefix.st = "null"
    /\ last.input.subnet_id = IntV(1921682250)
    /\ Len(sent) = 1
    /\ sent[1].body.command = "remote-subnet4-get-by-id"
    /\ sent[1].body.arguments.subnets = << [id |-> 1921682250] >>


(* C25: ImportState reports no error and records the import identifier as  *)
(* the subnet prefix of a subnet, as the option code of an option          *)
(* definition and as the IP address of a reservation.                      *)
C25_ImportRecordsIdentifier ==
    (pure.fn = "ImportState" /\ pure.done)
      => /\ pure.r.diags = <<>>
         /\ tf.kind = pure.resource
         /\ pure.resource = "subnet" => tf.data.subnet = Str(pure.id)
         /\ (pure.resource = "optdef" /\ Atoi(pure.id).ok)
               => tf.data.code = IntV(Atoi(pure.id).val)
         /\ pure.resource = "reservation" => tf.data.ip_address = Str(pure.id)


(* four decimal octets of at most 255, a slash and a prefix length of at   *)
(* most 32                                                                 *)
IsIPv4CIDR(s) ==
    /\ Len(SplitAll(s, "/")) = 2
    /\ ParseIPv4(SplitAll(s, "/")[1])
    /\ Len(SplitAll(s, "/")[2]) \in 1..2
    /\ \A i \in 1..Len(SplitAll(s, "/")[2]) : SplitAll(s, "/")[2][i] \in DigitChars
    /\ DigitsValue(SplitAll(s, "/")[2]) <= 32

(* C26: a subnet Create or Update that has sent remote-subnet4-set was     *)
(* given a syntactically valid IPv4 CIDR, and the id it sent is not        *)
(* negative.                                                               *)
C26_OnlyValidCIDRSent ==
    (pure.fn = "Subnet_Write" /\ pure.done /\ pure.r.sent # <<>>)
      => /\ IsIPv4CIDR(pure.subnet)
         /\ pure.r.sent[1].body.arguments.subnets[1].id >= 0


(* C27: a Read of a subnet whose recorded state is what Create or Update   *)
(* recorded, against a backend that stores the object they sent, reports   *)
(* no error and leaves every attribute of the recorded state as it was.    *)
C27_ReadKeepsRecordedState ==
    [][(/\ last'.op = "subnet.Read"
        /\ tf.kind = "subnet"
        /\ tf.data.id.st = "known"
        /\ NewRemoteSubnet4(tf.data, tf.data.id.n) \in server.subnets)
          => (last'.diags = <<>> /\ ~ last'.fault /\ tf' = tf)]_vars


(* C28: after a subnet Read that observed benign absence (the lookup      *)
(* failed with a "not found" error and Read raised no diagnostic), the    *)
(* recorded state still holds the subnet prefix and hostname Read was     *)
(* given, so the required-field validation of a following Read or Delete  *)
(* passes.                                                                *)
C28_AbsenceKeepsIdentity ==
    (/\ last.op = "subnet.Read"
     /\ ~ last.err.nil
     /\ Contains(last.err.msg, NotFoundMarker)
     /\ last.diags = <<>>)
       => /\ tf.kind = "subnet"
          /\ tf.data.subnet = last.input.subnet
          /\ tf.data.hostname = last.input.hostname
          /\ SubnetRequired(tf.data) = <<>>
          /\ Subnet_Read(client, tf.data, NoChoice).sent # <<>>
          /\ Subnet_Delete(client, tf.data, NoChoice).sent # <<>>


(* C29: no read path faults on an empty result: the subnet look-ups by    *)
(* prefix and by id answered with result 0 and an empty or missing        *)
(* subnets list, and the option-definition Read whose look-up reports no  *)
(* definition, all complete without an out-of-range access or a nil       *)
(* dereference.                                                           *)
C29_ReadsNeverFault ==
    last.op \in ReadOps => ~ last.fault


(* C30: every HTTP response body Client.do obtains is closed before do    *)
(* returns, whether do returns an error or not.                           *)
C30_BodyAlwaysClosed ==
    (pure.fn = "do" /\ pure.done /\ pure.outcome.kind = "response")
      => pure.r.body = "closed"

====
